---------------------------- MODULE Spec2Model ----------------------------
(***************************************************************************)
(* Model of the orchestration core of bridge-common:                       *)
(*   - the task executor (src/src/task_executor.rs) walking a task tree    *)
(*     that is stored as rows with an ancestry path (src/src/repo/tasks.rs,*)
(*     src/src/types/tasks.rs);                                            *)
(*   - the streaming chat completion (src/src/chats.rs).                   *)
(***************************************************************************)
EXTENDS Integers, Sequences, FiniteSets, TLC

(***************************************************************************)
(* Bounds of the model.                                                    *)
(***************************************************************************)
\* number of task rows of the tenant
NumTasks == 3
\* completion requests the LLM backend answers in one behaviour
MaxCompletions == 2
\* runs of execute_root_task in one behaviour
MaxRuns == 2
\* the value of settings.agents.execution_steps_limit
ExecutionStepsLimit == 1
\* frames the LLM backend sends in one completion
MaxFrames == 2
MaxCalls == 2
MaxPlan == 2
MaxLevel == 1
MaxDepthLimit == 2
MaxRequests == 3
MaxMessages == 2
MaxText == 5
MaxOutput == 2
MaxNodes == 3
MaxAbilities == 2
MaxChats == 2

VARIABLES
    ancestry,     \* task id -> path of ancestor ids, root first (<<>> is NULL)
    status,       \* task id -> persisted tasks.status
    chat,         \* task id -> messages of the task's execution chat, oldest first
    pc,           \* position of the worker inside execute_root_task
    root,         \* the root task the running execute_root_task picked (0: none)
    cur,          \* the task whose dialog loop runs (0: none)
    ret,          \* what execute_task returned for cur
    result,       \* what execute_root_task returned to its caller
    picked,       \* last answer of get_child_task_for_execution
    completions,  \* completion requests made so far
    runs,         \* execute_root_task calls started so far
    faulty,       \* whether the injected emitter may return an error
    events,       \* the TaskUpdated events emitted in the running execute_root_task
    sent,         \* the frames the LLM backend sends for the completion
    joined,       \* whether the frames arrive in one chunk
    cut,          \* the byte after which one more chunk boundary falls (0: none)
    net,          \* the chunks of the response not yet received
    message,      \* the assistant message create_completion holds in memory
    row,          \* the row of that message
    chunk_remainder, \* chunk_remainder of create_completion_stream
    request,      \* execute_for_message: cid, uid and the assistant message
    handles,      \* execute_for_message: the spawned executions, in spawn order
    finished,     \* the handles in the order in which their executions ended
    awaited,      \* the handles execute_for_message has awaited so far
    tool_messages,  \* the tool_call_id of the Tool messages created, in order
    created,      \* the MessageCreated events emitted for Tool messages, in order
    rows,         \* tenant -> status of the row with the assistant message's id
    tasks_table,  \* planner: the rows of the tasks table, a task's id is its index
    planned,      \* planner: the task plan was called with by its caller
    stack,        \* planner: the activations of plan, the running one last
    response,     \* planner: the latest answer of the LLM
    requests,     \* planner: the number of LLM requests issued
    emitted,      \* planner: the events emitted, in order
    planning_depth_limit, \* settings.tasks.planning_depth_limit
    json_str,     \* cleanup_json_string_newlines: the text it is given
    cleaned,      \* what it returns for json_str
    cleaned_twice, \* what it returns for cleaned
    has_binds,    \* run_in_container: whether a workdir is mounted
    container,    \* the container of the call, as the Docker daemon holds it
    output,       \* what the attached exec will still deliver
    script_out,   \* `out`: the output collected so far
    network,      \* wait_for_host_port: what an inspection of the container shows
    inspections,  \* the inspect_container calls made so far
    host_port,    \* the host port returned ("" while none)
    nodes,        \* parse_code_blocks: the children of the markdown AST of text
    code_blocks,  \* the code blocks it returns
    agent_abilities, \* create_completion: the abilities of the chat's agent
    params,       \* the CreateCompletionParams of the call
    abilities,    \* the abilities create_completion constructs the tools of
    offered_tools, \* the tools of the completion request
    chats,        \* the chats table: the kind of every chat, a chat's id is its index
    agents_chats, \* the agents_chats table: pairs of agent id and chat id
    execution_chat_id, \* tasks.execution_chat_id of the executed task (0: NULL)
    task_agent,   \* tasks.agent_id of the executed task
    task_chat_id, \* task.execution_chat_id of the Task held by the executor
    new_chats,    \* the ids of the chats the executor created for the task
    w_pc,         \* worker -> its position inside get_root_task_for_execution
    w_task,       \* worker -> the root its SELECT returned (0: none)
    row_lock      \* task id -> the worker whose open transaction updated the row (0: none)

streamVars == <<sent, joined, cut, net, message, row, chunk_remainder>>

toolVars == <<request, handles, finished, awaited, tool_messages, created, rows>>

planVars == <<tasks_table, planned, stack, response, requests, emitted,
              planning_depth_limit>>

cleanupVars == <<json_str, cleaned, cleaned_twice>>

dockerVars == <<has_binds, container, output, script_out>>

hostPortVars == <<network, inspections, host_port>>

codeBlockVars == <<nodes, code_blocks>>

offerVars == <<agent_abilities, params, abilities, offered_tools>>

chatVars == <<chats, agents_chats, execution_chat_id, task_agent, task_chat_id,
              new_chats>>

workerVars == <<w_pc, w_task, row_lock>>

lateVars == <<offerVars, chatVars, workerVars>>

helperVars == <<hostPortVars, codeBlockVars, lateVars>>

auxVars == <<cleanupVars, dockerVars, helperVars>>

vars == <<ancestry, status, chat, pc, root, cur, ret, result, picked,
          completions, runs, faulty, events, streamVars, toolVars, auxVars, planVars,
          auxVars>>

Tasks == 1..NumTasks

(***************************************************************************)
(* types/tasks.rs                                                          *)
(***************************************************************************)
Status == {"Draft", "ToDo", "InProgress", "WaitingForUser", "Done", "Failed"}

\* Task::parent_id: the last segment of the ancestry, 0 for a root
parent_id(t) == IF ancestry[t] = <<>> THEN 0 ELSE ancestry[t][Len(ancestry[t])]

\* Task::parent_ids: every segment of the ancestry, root first
parent_ids(t) == ancestry[t]

\* Task::children_ancestry
children_ancestry(t) == Append(ancestry[t], t)

\* created_at of a row: rows are created in id order
created_at(t) == t

IsPrefix(p, s) == Len(p) <= Len(s) /\ SubSeq(s, 1, Len(p)) = p

(***************************************************************************)
(* repo/tasks.rs                                                           *)
(***************************************************************************)
RECURSIVE SortByCreatedAt(_)
SortByCreatedAt(S) ==
    IF S = {} THEN <<>>
    ELSE LET first == CHOOSE t \in S : \A u \in S : created_at(t) <= created_at(u)
         IN  <<first>> \o SortByCreatedAt(S \ {first})

\* list_all_children: ancestry = X OR ancestry LIKE X/%, ORDER BY created_at
list_all_children(anc) ==
    SortByCreatedAt({t \in Tasks : anc # <<>> /\ IsPrefix(anc, ancestry[t])})

\* get_all_children_count
get_all_children_count(t) == Len(list_all_children(children_ancestry(t)))

\* get_root_for_execution: oldest root whose status is ToDo, 0 when none
get_root_for_execution_any_status ==
    LET roots == {t \in Tasks : ancestry[t] = <<>>}
    IN  IF roots = {} THEN 0 ELSE SortByCreatedAt(roots)[1]
get_root_for_execution ==
    LET roots == {t \in Tasks : ancestry[t] = <<>> /\ status[t] = "ToDo"}
    IN  IF roots = {} THEN 0 ELSE SortByCreatedAt(roots)[1]

\* is_all_siblings_done: no row with the same ancestry has another status
is_all_siblings_done(st, t) ==
    \A u \in Tasks : ancestry[u] = ancestry[t] => st[u] = "Done"

(***************************************************************************)
(* task_executor.rs: the child picker                                      *)
(***************************************************************************)
\* sort_task_tree with the comparison reversed: newest first
sort_task_tree_newest_first(tasks) ==
    LET sorted == SortByCreatedAt({tasks[i] : i \in 1..Len(tasks)})
    IN  [i \in 1..Len(sorted) |-> sorted[Len(sorted) + 1 - i]]

\* sort_task_tree: by created_at
sort_task_tree(tasks) == SortByCreatedAt({tasks[i] : i \in 1..Len(tasks)})

\* collect_children: the children of one tree node, in list order
collect_children(id, tasks) ==
    SelectSeq(tasks, LAMBDA t : parent_id(t) = id)

\* find_execution_candidate: depth first, children before the node itself;
\* st gives the status each node of the TaskTree carries
RECURSIVE find_execution_candidate(_, _, _)
RECURSIVE FirstCandidate(_, _, _, _)
FirstCandidate(kids, i, tasks, st) ==
    IF i > Len(kids) THEN 0
    ELSE LET c == find_execution_candidate(kids[i], tasks, st)
         IN  IF c # 0 THEN c ELSE FirstCandidate(kids, i + 1, tasks, st)

\* the picker with InProgress missing from the skipped statuses
find_execution_candidate_skip_done_only(id, tasks, st) ==
    LET kids == collect_children(id, tasks)
        c    == FirstCandidate(kids, 1, tasks, st)
    IN  IF c # 0 THEN c
        ELSE IF st[id] \in {"Done"} THEN 0
        ELSE id

\* the picker with Done missing from the skipped statuses
find_execution_candidate_skip_in_progress_only(id, tasks, st) ==
    LET kids == collect_children(id, tasks)
        c    == FirstCandidate(kids, 1, tasks, st)
    IN  IF c # 0 THEN c
        ELSE IF st[id] \in {"InProgress"} THEN 0
        ELSE id

find_execution_candidate(id, tasks, st) ==
    LET kids == collect_children(id, tasks)
        c    == FirstCandidate(kids, 1, tasks, st)
    IN  IF c # 0 THEN c
        ELSE IF st[id] \in {"InProgress", "Done"} THEN 0
        ELSE id

\* get_child_task_for_execution: the tree root is the in-memory parent, whose
\* status was set to InProgress by get_root_task_for_execution
get_child_task_for_execution(parent) ==
    LET tasks == sort_task_tree(list_all_children(children_ancestry(parent)))
        st    == [status EXCEPT ![parent] = "InProgress"]
    IN  find_execution_candidate(parent, tasks, st)


(***************************************************************************)
(* types/messages.rs: the rows of an execution chat.                       *)
(*   tools   the function names of the row's tool_calls, in order          *)
(*   code    whether parse_code_blocks finds an annotated block in content *)
(*   tcid    tool_call_id: the position of the answered call (0: NULL)     *)
(***************************************************************************)
ToolNames ==
    {"sfai_done", "sfai_fail", "sfai_wait_for_user", "sfai_code_interpreter", "other"}

\* the tool_calls lists the LLM answers with: every single call, and pairs
\* that mix terminal verbs, the code interpreter and an unknown name
ToolLists ==
    {<<n>> : n \in ToolNames}
    \cup {<<"sfai_done", "sfai_fail">>, <<"sfai_code_interpreter", "sfai_wait_for_user">>,
          <<"other", "sfai_done">>}

RECURSIVE MaxLen(_)
MaxLen(S) ==
    IF S = {} THEN 0
    ELSE LET q == CHOOSE x \in S : TRUE
             m == MaxLen(S \ {q})
         IN  IF Len(q) > m THEN Len(q) ELSE m

AssistantMessage(tools, refl, st, code) ==
    [role |-> "Assistant", tools |-> tools, refl |-> refl, internal |-> FALSE,
     status |-> st, code |-> code, tcid |-> 0]

\* the Tool row sfai_done, sfai_fail and sfai_wait_for_user insert
ToolMessage(i) ==
    [role |-> "Tool", tools |-> <<>>, refl |-> FALSE, internal |-> TRUE,
     status |-> "Completed", code |-> FALSE, tcid |-> i]

\* the CodeInterpreter row sfai_code_interpreter inserts
CodeInterpreterMessage ==
    [role |-> "CodeInterpreter", tools |-> <<>>, refl |-> FALSE, internal |-> FALSE,
     status |-> "Completed", code |-> FALSE, tcid |-> 0]

\* a message the user wrote into the execution chat
UserMessage ==
    [role |-> "User", tools |-> <<>>, refl |-> FALSE, internal |-> FALSE,
     status |-> "Completed", code |-> FALSE, tcid |-> 0]

(***************************************************************************)
(* repo/messages.rs                                                        *)
(***************************************************************************)
\* get_last_non_self_reflection_message returns a row
has_last_non_self_reflection_message(c) ==
    \E i \in 1..Len(c) : c[i].role = "Assistant" /\ ~c[i].refl

\* get_execution_steps_count: Assistant rows that are not internal tool output
get_execution_steps_count(c) ==
    Cardinality({i \in 1..Len(c) : c[i].role = "Assistant" /\ ~c[i].internal})

(***************************************************************************)
(* channel.rs: Emitter::emit returns a Result.  The outcomes of one emit.  *)
(***************************************************************************)
Emit == IF faulty THEN {TRUE, FALSE} ELSE {TRUE}

\* Event::TaskUpdated(&task): the task and the status it carries
TaskUpdated(t, st) == [task |-> t, status |-> st]

(***************************************************************************)
(* chats.rs: create_completion as its caller sees it: the Assistant row it *)
(* leaves in the chat and whether it returned an error.                    *)
(*   - the stream ended in [DONE]: Completed without tool calls,           *)
(*     WaitingForToolCall with tool calls, Ok                              *)
(*   - the request, the stream or a frame failed: fail_message, Err        *)
(*   - emit(MessageCreated) failed (chats.rs:110): the row stays Writing   *)
(***************************************************************************)
create_completion(refl) ==
    {[msg |-> AssistantMessage(<<>>, refl, "Failed", FALSE), err |-> TRUE]}
    \cup {[msg |-> AssistantMessage(<<>>, refl, "Completed", c), err |-> FALSE] :
            c \in IF refl THEN {FALSE} ELSE BOOLEAN}
    \cup {[msg |-> AssistantMessage(T, refl, "WaitingForToolCall", FALSE),
           err |-> FALSE] : T \in ToolLists}
    \cup (IF faulty
          THEN {[msg |-> AssistantMessage(<<>>, refl, "Writing", FALSE), err |-> TRUE]}
          ELSE {})

(***************************************************************************)
(* task_executor.rs: call_tools.  The tool calls of message are handled in *)
(* order; f is the emit that fails (0: none), n the emits made so far.     *)
(* The answer: the chat, the new status ("none": None), whether an error   *)
(* was returned, the emits made.                                           *)
(***************************************************************************)
RECURSIVE call_tools(_, _, _, _, _, _)
call_tools(c, tools, i, st, f, n) ==
    IF i > Len(tools)
    THEN [chat |-> c, status |-> st, err |-> FALSE, emits |-> n]
    ELSE
      CASE tools[i] = "sfai_done" ->
             \* sfai_done: the Tool row, then sfai_provide_text_result with its
             \* two emits when the chat has a non-self-reflection assistant row
             LET c1 == Append(c, ToolMessage(i))
             IN  IF ~has_last_non_self_reflection_message(c1)
                 THEN call_tools(c1, tools, i + 1, "Done", f, n)
                 ELSE IF f \in {n + 1, n + 2}
                 THEN [chat |-> c1, status |-> st, err |-> TRUE, emits |-> f]
                 ELSE call_tools(c1, tools, i + 1, "Done", f, n + 2)
        [] tools[i] = "sfai_fail" ->
             call_tools(Append(c, ToolMessage(i)), tools, i + 1, "Failed", f, n)
        [] tools[i] = "sfai_wait_for_user" ->
             call_tools(Append(c, ToolMessage(i)), tools, i + 1, "WaitingForUser", f, n)
        [] tools[i] = "sfai_code_interpreter" ->
             \* sfai_code_interpreter: one CodeInterpreter row and its emit
             IF ~has_last_non_self_reflection_message(c)
             THEN call_tools(c, tools, i + 1, st, f, n)
             ELSE LET c1 == Append(c, CodeInterpreterMessage)
                  IN  IF f = n + 1
                      THEN [chat |-> c1, status |-> st, err |-> TRUE, emits |-> f]
                      ELSE call_tools(c1, tools, i + 1, st, f, n + 1)
        [] OTHER ->
             \* any other name: "_ => None", the call is not dispatched
             call_tools(c, tools, i + 1, st, f, n)

\* the emits one call_tools can make, plus the one of complete_message
MaxEmits == 2 * MaxLen(ToolLists) + 1

\* the emit that fails in one step of the dialog loop (0: none)
EmitFailures == IF faulty THEN 0..MaxEmits ELSE {0}

(***************************************************************************)
(* chats.rs: the streaming completion.  A text is a sequence of characters *)
(* and the chunks of the response body are sequences of bytes; an ASCII    *)
(* byte and its character are the same one-character string, "xC3" "xA9"   *)
(* are the two bytes of the character "e_acute", and "U+FFFD" is the       *)
(* replacement character.                                                  *)
(***************************************************************************)
CHUNK_SEPARATOR == <<"\n", "\n">>
DATA_PREFIX == <<"d", "a", "t", "a", ":", " ">>
DONE_CHUNK == DATA_PREFIX \o <<"[", "D", "O", "N", "E", "]">>

\* char::is_whitespace, as str::trim and the JSON reader use it
WhiteSpace == {" ", "\n", "\t", "\r"}

Take(s, n) == SubSeq(s, 1, n)
Drop(s, n) == SubSeq(s, n + 1, Len(s))

\* String::from_utf8_lossy: a byte sequence that is not UTF-8 decodes to
\* the replacement character
RECURSIVE from_utf8_lossy(_)
from_utf8_lossy(b) ==
    IF b = <<>> THEN <<>>
    ELSE IF b[1] = "xC3" /\ Len(b) >= 2 /\ b[2] = "xA9"
    THEN <<"e_acute">> \o from_utf8_lossy(Drop(b, 2))
    ELSE IF b[1] \in {"xC3", "xA9"}
    THEN <<"U+FFFD">> \o from_utf8_lossy(Drop(b, 1))
    ELSE <<b[1]>> \o from_utf8_lossy(Drop(b, 1))

\* str::trim
RECURSIVE trim_start(_)
trim_start(s) ==
    IF s # <<>> /\ s[1] \in WhiteSpace THEN trim_start(Drop(s, 1)) ELSE s

RECURSIVE trim_end(_)
trim_end(s) ==
    IF s # <<>> /\ s[Len(s)] \in WhiteSpace THEN trim_end(Take(s, Len(s) - 1)) ELSE s

trim(s) == trim_end(trim_start(s))

\* str::split(CHUNK_SEPARATOR): the pieces between the separators, left to
\* right, empty pieces included
RECURSIVE FindSeparator(_, _)
FindSeparator(s, i) ==
    IF i + 1 > Len(s) THEN 0
    ELSE IF SubSeq(s, i, i + 1) = CHUNK_SEPARATOR THEN i
    ELSE FindSeparator(s, i + 1)

RECURSIVE split(_)
split(s) ==
    LET i == FindSeparator(s, 1)
    IN  IF i = 0 THEN <<s>> ELSE <<Take(s, i - 1)>> \o split(Drop(s, i + 1))

(***************************************************************************)
(* serde_json::from_str on the body of a frame.  The JSON texts of the     *)
(* model are objects written with one-letter member names: the value after *)
(*   c is choices[0].delta.content                                         *)
(*   i is choices[0].delta.tool_calls[0].id                                *)
(*   n is choices[0].delta.tool_calls[0].function.name                     *)
(*   a is choices[0].delta.tool_calls[0].function.arguments                *)
(* and a value is a string in double quotes (with the escapes \n, \" and   *)
(* \\) or the number 0.  As in JSON, white space between the tokens is     *)
(* skipped, a raw line break inside a string is an error, and so is any    *)
(* character after the closing brace.                                      *)
(***************************************************************************)
Members == {"c", "i", "n", "a"}
Absent == [kind |-> "absent", str |-> <<>>]
Number == [kind |-> "number", str |-> <<>>]
Str(s) == [kind |-> "string", str |-> s]
EmptyObject == [m \in Members |-> Absent]
SyntaxError == [ok |-> FALSE, value |-> EmptyObject]

RECURSIVE SkipWhiteSpace(_, _)
SkipWhiteSpace(s, i) ==
    IF i <= Len(s) /\ s[i] \in WhiteSpace THEN SkipWhiteSpace(s, i + 1) ELSE i

\* the string that starts after the opening quote at i - 1: its characters
\* and the position after its closing quote (0: no string)
RECURSIVE ParseString(_, _, _)
ParseString(s, i, acc) ==
    IF i > Len(s) \/ s[i] = "\n" THEN [str |-> <<>>, next |-> 0]
    ELSE IF s[i] = "\"" THEN [str |-> acc, next |-> i + 1]
    ELSE IF s[i] = "\\"
    THEN IF i + 1 <= Len(s) /\ s[i + 1] \in {"n", "\"", "\\"}
         THEN ParseString(s, i + 2,
                          Append(acc, IF s[i + 1] = "n" THEN "\n" ELSE s[i + 1]))
         ELSE [str |-> <<>>, next |-> 0]
    ELSE ParseString(s, i + 1, Append(acc, s[i]))

\* the members of the object from position i on, up to the closing brace
RECURSIVE ParseMembers(_, _, _)
ParseMembers(s, i, obj) ==
    LET j == SkipWhiteSpace(s, i)
    IN  IF j > Len(s) THEN SyntaxError
        ELSE IF s[j] = "}"
        THEN IF SkipWhiteSpace(s, j + 1) > Len(s)
             THEN [ok |-> TRUE, value |-> obj]
             ELSE SyntaxError
        ELSE IF s[j] \in Members /\ obj[s[j]] = Absent
        THEN LET k == SkipWhiteSpace(s, j + 1)
             IN  IF k > Len(s) THEN SyntaxError
                 ELSE IF s[k] = "0"
                 THEN ParseMembers(s, k + 1, [obj EXCEPT ![s[j]] = Number])
                 ELSE IF s[k] = "\""
                 THEN LET v == ParseString(s, k + 1, <<>>)
                      IN  IF v.next = 0 THEN SyntaxError
                          ELSE ParseMembers(s, v.next,
                                            [obj EXCEPT ![s[j]] = Str(v.str)])
                 ELSE SyntaxError
        ELSE SyntaxError

from_str(s) ==
    LET i == SkipWhiteSpace(s, 1)
    IN  IF i <= Len(s) /\ s[i] = "{" THEN ParseMembers(s, i + 1, EmptyObject)
        ELSE SyntaxError

(***************************************************************************)
(* chats.rs: the assistant message of a completion.  content is <<>> for   *)
(* None and <<text>> for Some(text); tool_calls is the list that           *)
(* Message::tool_calls reads (empty for None), each entry a ToolCall of    *)
(* type function.                                                          *)
(***************************************************************************)
NewToolCall == [id |-> <<>>, name |-> <<>>, arguments |-> <<>>]
DummyMessage == [status |-> "Writing", content |-> <<>>, tool_calls |-> <<>>]
NoRow == [status |-> "none", content |-> <<>>, tool_calls |-> <<>>]

\* Message::tool_calls
tool_calls(m) == m.tool_calls

\* cleanup_json_string_newlines: the loop over the characters, then
\* trim().replace('\n', "\\n")
RECURSIVE CleanupLoop_escaping_backslashes(_, _, _, _, _)
CleanupLoop_escaping_backslashes(s, i, out, in_quotes, last_char) ==
    IF i > Len(s) THEN out
    ELSE LET c == s[i]
             q == IF c = "\"" /\ last_char # "\\" THEN ~in_quotes ELSE in_quotes
         IN  IF c = "\n"
             THEN IF q
                  THEN CleanupLoop_escaping_backslashes(s, i + 1, out \o <<"\\", "n">>, q, c)
                  ELSE CleanupLoop_escaping_backslashes(s, i + 1, out, q, last_char)
             ELSE IF c = "\\"
             THEN CleanupLoop_escaping_backslashes(s, i + 1, out \o <<c, c>>, q, c)
             ELSE CleanupLoop_escaping_backslashes(s, i + 1, Append(out, c), q, c)

RECURSIVE CleanupLoop(_, _, _, _, _)
CleanupLoop(s, i, out, in_quotes, last_char) ==
    IF i > Len(s) THEN out
    ELSE LET c == s[i]
             q == IF c = "\"" /\ last_char # "\\" THEN ~in_quotes ELSE in_quotes
         IN  IF c = "\n"
             THEN IF q
                  THEN CleanupLoop(s, i + 1, out \o <<"\\", "n">>, q, c)
                  ELSE CleanupLoop(s, i + 1, out, q, last_char)
             ELSE CleanupLoop(s, i + 1, Append(out, c), q, c)

RECURSIVE ReplaceNewlines(_)
ReplaceNewlines(s) ==
    IF s = <<>> THEN <<>>
    ELSE (IF s[1] = "\n" THEN <<"\\", "n">> ELSE <<s[1]>>) \o ReplaceNewlines(Drop(s, 1))

cleanup_json_string_newlines(s) ==
    ReplaceNewlines(trim(CleanupLoop(s, 1, <<>>, FALSE, " ")))

\* apply_completion_chunk after the frame was parsed: content, then
\* tool_calls[0], then the write back of the current tool call; current is
\* <<>> for None and <<tool call>> for Some
ApplyDelta(msg, current, delta) ==
    LET m1 == IF delta.c.kind = "string"
              THEN [msg EXCEPT
                      !.content = <<(IF @ = <<>> THEN <<>> ELSE @[1]) \o delta.c.str>>]
              ELSE msg
        has_tool_calls == \E k \in {"i", "n", "a"} : delta[k] # Absent
        started == IF has_tool_calls /\ (current = <<>> \/ delta.i # Absent)
                   THEN <<NewToolCall>>
                   ELSE current
        not_a_str == \E k \in {"i", "n", "a"} : delta[k].kind = "number"
        updated == IF has_tool_calls
                   THEN <<[id        |-> started[1].id \o delta.i.str,
                           name      |-> started[1].name \o delta.n.str,
                           arguments |-> started[1].arguments \o delta.a.str]>>
                   ELSE started
    IN  IF has_tool_calls /\ not_a_str
        THEN [message |-> m1, err |-> "Other"]
        ELSE IF updated = <<>>
        THEN [message |-> m1, err |-> "none"]
        ELSE LET tc   == tool_calls(m1)
                 kept == IF tc # <<>> /\ updated[1].id = tc[Len(tc)].id
                         THEN Take(tc, Len(tc) - 1)
                         ELSE tc
             IN  [message |-> [m1 EXCEPT !.tool_calls = Append(kept, updated[1])],
                  err |-> "none"]

apply_completion_chunk(msg, chunk) ==
    LET current == IF tool_calls(msg) # <<>>
                   THEN <<tool_calls(msg)[Len(tool_calls(msg))]>>
                   ELSE <<>>
        body == trim(chunk)
    IN  IF ~IsPrefix(DATA_PREFIX, body)
        THEN [message |-> msg, err |-> "NoValidChunkPrefix"]
        ELSE LET completion == from_str(Drop(body, Len(DATA_PREFIX)))
             IN  IF ~completion.ok
                 THEN [message |-> msg, err |-> "ChunkDeserialization"]
                 ELSE ApplyDelta(msg, current, completion.value)

(***************************************************************************)
(* chats.rs: create_completion_stream.  l holds what the function works    *)
(* on: the message in memory, its row, chunk_remainder, and err, the error *)
(* the function returns ("none": still running).                           *)
(***************************************************************************)
\* fail_message with a working emitter
fail_message(l) ==
    [l EXCEPT !.row.status = "Failed", !.message.status = "Failed"]

\* the [DONE] arm persisting Completed whatever the tool calls are
Finalize_always_completed(l) ==
    LET m == [l.message EXCEPT !.status = "Completed"]
    IN  [l EXCEPT !.message = m, !.row = m]

\* the [DONE] arm: status, cleanup of the arguments, the write to the row
Finalize(l) ==
    LET tc == tool_calls(l.message)
        m  == [l.message EXCEPT
                 !.status = IF tc # <<>> THEN "WaitingForToolCall" ELSE "Completed",
                 !.tool_calls =
                     [k \in 1..Len(tc) |->
                        [tc[k] EXCEPT !.arguments = cleanup_json_string_newlines(@)]]]
    IN  [l EXCEPT !.message = m, !.row = m]

\* the body of "for chunk in chunks"
ProcessFrame(l, chunk) ==
    IF chunk = DONE_CHUNK THEN Finalize(l)
    ELSE LET r == apply_completion_chunk(l.message, chunk)
         IN  IF r.err \in {"ChunkDeserialization", "NoValidChunkPrefix"}
             THEN [l EXCEPT !.chunk_remainder = chunk]
             ELSE IF r.err # "none"
             THEN [fail_message([l EXCEPT !.message = r.message]) EXCEPT !.err = "ChunkError"]
             ELSE [l EXCEPT !.message = r.message]

RECURSIVE ProcessFrames(_, _, _)
ProcessFrames(l, chunks, i) ==
    IF i > Len(chunks) \/ l.err # "none" THEN l
    ELSE ProcessFrames(ProcessFrame(l, chunks[i]), chunks, i + 1)

RECURSIVE TrimAll(_)
TrimAll(chunks) ==
    IF chunks = <<>> THEN <<>> ELSE <<trim(chunks[1])>> \o TrimAll(Drop(chunks, 1))

\* the body of "while let Some(chunk)" for one chunk of the response
ProcessChunk(l, bytes) ==
    LET chunk  == l.chunk_remainder \o from_utf8_lossy(bytes)
        chunks == SelectSeq(TrimAll(split(chunk)), LAMBDA c : c # <<>>)
    IN  ProcessFrames([l EXCEPT !.chunk_remainder = <<>>], chunks, 1)

\* completion_result without the look at the message's status
completion_result_unchecked(l) == l

\* create_completion after create_completion_stream returned Ok: a message
\* that is still Writing is failed
completion_result(l) ==
    IF l.message.status = "Writing"
    THEN [fail_message(l) EXCEPT !.err = "NoCompletion"]
    ELSE l

(***************************************************************************)
(* abilities.rs: execute_for_message is not running.                       *)
(***************************************************************************)
NoRequest == [cid |-> "none", uid |-> "none", agent_id |-> FALSE, calls |-> <<>>]

NoToolExecution ==
    /\ request = NoRequest
    /\ handles = <<>>
    /\ finished = <<>>
    /\ awaited = 0
    /\ tool_messages = <<>>
    /\ created = <<>>
    /\ rows = [c \in {} |-> "none"]

(***************************************************************************)
(* task_planner.rs: plan is not running.                                   *)
(***************************************************************************)
NoResponse == [role |-> "none", tool_calls |-> <<>>]

NoPlanning ==
    /\ tasks_table = <<>>
    /\ planned = 0
    /\ stack = <<>>
    /\ response = NoResponse
    /\ requests = 0
    /\ emitted = <<>>
    /\ planning_depth_limit = 0

(***************************************************************************)
(* No pure function of the crate is being applied.                         *)
(***************************************************************************)
NoCleanup ==
    /\ json_str = <<>>
    /\ cleaned = <<>>
    /\ cleaned_twice = <<>>

NoDocker ==
    /\ has_binds = FALSE
    /\ container = "none"
    /\ output = <<>>
    /\ script_out = <<>>

NoHostPort ==
    /\ network = [kind |-> "NoNetworkSettings", bindings |-> <<>>]
    /\ inspections = 0
    /\ host_port = ""

NoCodeBlocks ==
    /\ nodes = <<>>
    /\ code_blocks = <<>>

NoParams == [abilities |-> [some |-> FALSE, list |-> <<>>], is_self_reflection |-> FALSE]

NoOffer ==
    /\ agent_abilities = <<>>
    /\ params = NoParams
    /\ abilities = <<>>
    /\ offered_tools = [some |-> FALSE, list |-> <<>>]

NoChats ==
    /\ chats = <<>>
    /\ agents_chats = {}
    /\ execution_chat_id = 0
    /\ task_agent = 0
    /\ task_chat_id = 0
    /\ new_chats = {}

NoWorkers ==
    /\ w_pc = <<>>
    /\ w_task = <<>>
    /\ row_lock = <<>>

NoLate == NoOffer /\ NoChats /\ NoWorkers

NoHelpers == NoHostPort /\ NoCodeBlocks /\ NoLate

NoAux == NoCleanup /\ NoDocker /\ NoHelpers

(***************************************************************************)
(* The persisted state before the worker starts.                           *)
(***************************************************************************)
\* parent of each row: a row's parent was created before it (0: a root)
ParentFns == {par \in [Tasks -> 0..NumTasks] : \A t \in Tasks : par[t] < t}

RECURSIVE AncestryOf(_, _)
AncestryOf(par, t) ==
    IF par[t] = 0 THEN <<>> ELSE Append(AncestryOf(par, par[t]), par[t])

NoRet == [kind |-> "none", status |-> "none"]
NoPick == [task |-> 0, status |-> "none"]

InitWorker ==
    /\ chat = [t \in Tasks |-> <<>>]
    /\ pc = "idle"
    /\ root = 0
    /\ cur = 0
    /\ ret = NoRet
    /\ result = "none"
    /\ picked = NoPick
    /\ completions = 0
    /\ runs = 0
    /\ events = {}
    /\ NoToolExecution
    /\ NoPlanning
    /\ NoAux
    /\ sent = <<>>
    /\ joined = FALSE
    /\ cut = 0
    /\ net = <<>>
    /\ message = NoRow
    /\ row = NoRow
    /\ chunk_remainder = <<>>

\* any forest with any statuses, as earlier runs, the planner and the user
\* (revise, execute, wait_for_user, ...) can leave it; the emitter works
Init ==
    /\ \E par \in ParentFns : ancestry = [t \in Tasks |-> AncestryOf(par, t)]
    /\ status \in [Tasks -> Status]
    /\ faulty = FALSE
    /\ InitWorker

\* a freshly planned forest: roots queued (ToDo), every other task Draft; the
\* emitter may fail
InitFaulty ==
    /\ \E par \in ParentFns : ancestry = [t \in Tasks |-> AncestryOf(par, t)]
    /\ status = [t \in Tasks |-> IF ancestry[t] = <<>> THEN "ToDo" ELSE "Draft"]
    /\ faulty = TRUE
    /\ InitWorker

(***************************************************************************)
(* task_executor.rs: execute_root_task up to the choice between the tree   *)
(* walk and the root's own dialog loop.                                    *)
(***************************************************************************)
ExecuteRootTask ==
    /\ pc = "idle"
    /\ runs < MaxRuns
    /\ runs' = runs + 1
    /\ picked' = NoPick
    /\ ret' = NoRet
    /\ LET r == get_root_for_execution
       IN  IF r = 0
           THEN /\ result' = "NoRootTasks"
                /\ pc' = "returned"
                /\ UNCHANGED <<status, root, cur, events>>
           ELSE \E ok \in Emit :
                /\ status' = [status EXCEPT ![r] = "InProgress"]
                /\ root' = r
                /\ events' = IF ok THEN {TaskUpdated(r, "InProgress")} ELSE {}
                /\ IF ~ok
                   THEN /\ result' = "EmitError"
                        /\ pc' = "returned"
                        /\ cur' = 0
                   ELSE IF get_all_children_count(r) > 0
                   THEN /\ result' = "none"
                        /\ pc' = "children"
                        /\ cur' = 0
                   ELSE /\ result' = "none"
                        /\ pc' = "execute_task"
                        /\ cur' = r
    /\ UNCHANGED <<ancestry, chat, completions, faulty, streamVars, toolVars, planVars, auxVars>>

(***************************************************************************)
(* execute_children_task_tree: the head of the while loop.                 *)
(***************************************************************************)
GetChildTask ==
    /\ pc = "children"
    /\ LET c == get_child_task_for_execution(root)
       IN  IF c = 0
           THEN /\ result' = "Ok"
                /\ pc' = "returned"
                /\ picked' = NoPick
                /\ UNCHANGED <<status, cur, events>>
           ELSE \E ok \in Emit :
                /\ picked' = [task |-> c, status |-> status[c]]
                /\ status' = [status EXCEPT ![c] = "InProgress"]
                /\ events' = IF ok THEN events \cup {TaskUpdated(c, "InProgress")}
                                    ELSE events
                /\ IF ok
                   THEN /\ pc' = "execute_task"
                        /\ cur' = c
                        /\ result' = result
                   ELSE /\ pc' = "returned"
                        /\ cur' = 0
                        /\ result' = "EmitError"
    /\ ret' = NoRet
    /\ UNCHANGED <<ancestry, chat, root, completions, runs, faulty, streamVars, toolVars, planVars, auxVars>>

(***************************************************************************)
(* execute_task: the execution chat and the emit before the loop.          *)
(***************************************************************************)
ExecuteTaskBegin ==
    /\ pc = "execute_task"
    /\ \E ok \in Emit :
         IF ok
         THEN /\ pc' = "dialog"
              /\ ret' = NoRet
              /\ events' = events \cup {TaskUpdated(cur, status[cur])}
         ELSE /\ pc' = "finish"
              /\ ret' = [kind |-> "err", status |-> "none"]
              /\ events' = events
    /\ UNCHANGED <<ancestry, status, chat, root, cur, result, picked,
                   completions, runs, faulty, streamVars, toolVars, planVars, auxVars>>

(***************************************************************************)
(* execute_task: one iteration of the loop, by the chat's last message.    *)
(***************************************************************************)
NoMessage(c) == Len(c) = 0
LastMessage(c) == c[Len(c)]

\* None, or CodeInterpreter | Tool | User, or a self-reflection answer
\* without tool calls: send_to_agent
SendToAgent ==
    /\ pc = "dialog"
    /\ \/ NoMessage(chat[cur])
       \/ /\ ~NoMessage(chat[cur])
          /\ LET m == LastMessage(chat[cur])
             IN  \/ m.role \in {"CodeInterpreter", "Tool", "User"}
                 \/ m.role = "Assistant" /\ Len(m.tools) = 0 /\ m.refl
    /\ completions < MaxCompletions
    /\ completions' = completions + 1
    /\ \E o \in create_completion(FALSE) :
         /\ chat' = [chat EXCEPT ![cur] = Append(@, o.msg)]
         /\ IF o.err
            THEN pc' = "finish" /\ ret' = [kind |-> "err", status |-> "none"]
            ELSE pc' = "dialog" /\ ret' = NoRet
    /\ UNCHANGED <<ancestry, status, root, cur, result, picked, runs, faulty, events, streamVars, toolVars, planVars, auxVars>>

\* an assistant answer without tool calls and without annotated code blocks:
\* self_reflect
SelfReflect ==
    /\ pc = "dialog"
    /\ ~NoMessage(chat[cur])
    /\ LET m == LastMessage(chat[cur])
       IN  m.role = "Assistant" /\ Len(m.tools) = 0 /\ ~m.refl /\ ~m.code
    /\ completions < MaxCompletions
    /\ completions' = completions + 1
    /\ \E o \in create_completion(TRUE) :
         /\ chat' = [chat EXCEPT ![cur] = Append(@, o.msg)]
         /\ IF o.err
            THEN pc' = "finish" /\ ret' = [kind |-> "err", status |-> "none"]
            ELSE pc' = "dialog" /\ ret' = NoRet
    /\ UNCHANGED <<ancestry, status, root, cur, result, picked, runs, faulty, events, streamVars, toolVars, planVars, auxVars>>

\* an assistant answer without tool calls and with annotated code blocks:
\* sfai_code_interpreter and its emit
InterpretCodeBlocks ==
    /\ pc = "dialog"
    /\ ~NoMessage(chat[cur])
    /\ LET m == LastMessage(chat[cur])
       IN  m.role = "Assistant" /\ Len(m.tools) = 0 /\ ~m.refl /\ m.code
    /\ chat' = [chat EXCEPT ![cur] = Append(@, CodeInterpreterMessage)]
    /\ \E ok \in Emit :
         IF ok
         THEN pc' = "dialog" /\ ret' = NoRet
         ELSE pc' = "finish" /\ ret' = [kind |-> "err", status |-> "none"]
    /\ UNCHANGED <<ancestry, status, root, cur, result, picked,
                   completions, runs, faulty, events, streamVars, toolVars, planVars, auxVars>>

\* an assistant answer with tool calls: call_tools, then complete_message,
\* or fail_message when call_tools returned an error
CallTools ==
    /\ pc = "dialog"
    /\ ~NoMessage(chat[cur])
    /\ LastMessage(chat[cur]).role = "Assistant"
    /\ Len(LastMessage(chat[cur]).tools) > 0
    /\ \E f \in EmitFailures :
         LET m == Len(chat[cur])
             r == call_tools(chat[cur], chat[cur][m].tools, 1, "none", f, 0)
         IN  IF r.err
             THEN /\ chat' = [chat EXCEPT ![cur] = [r.chat EXCEPT ![m].status = "Failed"]]
                  /\ pc' = "finish"
                  /\ ret' = [kind |-> "err", status |-> "none"]
             ELSE /\ chat' = [chat EXCEPT ![cur] = [r.chat EXCEPT ![m].status = "Completed"]]
                  /\ IF f = r.emits + 1
                     THEN pc' = "finish" /\ ret' = [kind |-> "err", status |-> "none"]
                     ELSE IF r.status # "none"
                     THEN pc' = "finish" /\ ret' = [kind |-> "ok", status |-> r.status]
                     ELSE pc' = "dialog" /\ ret' = NoRet
    /\ UNCHANGED <<ancestry, status, root, cur, result, picked,
                   completions, runs, faulty, events, streamVars, toolVars, planVars, auxVars>>

(***************************************************************************)
(* execute_root_task: the match on execute_task's answer for a root        *)
(* without children.                                                       *)
(***************************************************************************)
FinishRootTask ==
    /\ pc = "finish"
    /\ cur = root
    /\ \E ok \in Emit :
         IF ret.kind = "ok"
         THEN /\ status' = [status EXCEPT ![cur] = ret.status]
              /\ result' = IF ok THEN "Ok" ELSE "EmitError"
              /\ events' = IF ok THEN events \cup {TaskUpdated(cur, ret.status)}
                                  ELSE events
         ELSE /\ status' = [status EXCEPT ![cur] = "Failed"]
              /\ result' = IF ok THEN "TaskError" ELSE "EmitError"
              /\ events' = IF ok THEN events \cup {TaskUpdated(cur, "Failed")}
                                  ELSE events
    /\ pc' = "returned"
    /\ UNCHANGED <<ancestry, chat, root, cur, ret, picked, completions, runs,
                   faulty, streamVars, toolVars, planVars, auxVars>>

\* fail_parent_tasks failing the direct parent only (parent_id for parent_ids)
fail_parent_tasks_direct_parent_only(st, child, k) ==
    [t \in Tasks |-> IF t = parent_id(child) THEN "Failed" ELSE st[t]]

\* fail_parent_tasks failing every task below the child's root as well
fail_parent_tasks_whole_tree(st, child, k) ==
    [t \in Tasks |->
        IF \/ t \in {parent_ids(child)[i] : i \in 1..Len(parent_ids(child))}
           \/ (ancestry[t] # <<>> /\ ancestry[child] # <<>>
                /\ ancestry[t][1] = ancestry[child][1])
        THEN "Failed" ELSE st[t]]

\* fail_parent_tasks: fail and emit for every id of the child's ancestry, in
\* order; k is the emit that fails and ends the loop (0: none)
fail_parent_tasks(st, child, k) ==
    LET ids == parent_ids(child)
        n   == IF k = 0 THEN Len(ids) ELSE k
    IN  [t \in Tasks |-> IF \E i \in 1..n : ids[i] = t THEN "Failed" ELSE st[t]]

\* fail_parent_tasks: the events of the emits that succeeded, those before
\* the emit k that fails (0: none fails)
fail_parent_tasks_events(child, k) ==
    LET ids == parent_ids(child)
        n   == IF k = 0 THEN Len(ids) ELSE k - 1
    IN  {TaskUpdated(ids[i], "Failed") : i \in 1..n}

(***************************************************************************)
(* execute_children_task_tree: the match on execute_task's answer for the  *)
(* picked child.                                                           *)
(***************************************************************************)
FinishChildTask ==
    /\ pc = "finish"
    /\ cur # root
    /\ IF ret.kind = "ok"
       THEN \* Ok(_): complete the child, whatever status was returned
            LET st1 == [status EXCEPT ![cur] = "Done"]
            IN  IF is_all_siblings_done(st1, cur)
                THEN \E ok \in Emit :
                     /\ status' = [st1 EXCEPT ![parent_id(cur)] = "Done"]
                     /\ IF ok
                        THEN /\ pc' = "children"
                             /\ result' = result
                             /\ events' = events \cup {TaskUpdated(parent_id(cur), "Done")}
                        ELSE /\ pc' = "returned"
                             /\ result' = "EmitError"
                             /\ events' = events
                ELSE /\ status' = st1
                     /\ pc' = "children"
                     /\ result' = result
                     /\ events' = events
       ELSE \* Err(err): fail the child and its ancestors, return the error
            \E k \in IF faulty THEN 0..Len(parent_ids(cur)) ELSE {0} :
              /\ status' = fail_parent_tasks([status EXCEPT ![cur] = "Failed"], cur, k)
              /\ events' = events \cup fail_parent_tasks_events(cur, k)
              /\ pc' = "returned"
              /\ result' = IF k = 0 THEN "TaskError" ELSE "EmitError"
    /\ UNCHANGED <<ancestry, chat, root, cur, ret, picked, completions, runs,
                   faulty, streamVars, toolVars, planVars, auxVars>>

(***************************************************************************)
(* Between runs: the user queues a root again (repo::tasks::execute) and   *)
(* the background worker calls execute_root_task again.                    *)
(***************************************************************************)
Execute(t) ==
    /\ pc = "returned"
    /\ runs < MaxRuns
    /\ ancestry[t] = <<>>
    /\ status[t] # "ToDo"
    /\ status' = [status EXCEPT ![t] = "ToDo"]
    /\ UNCHANGED <<ancestry, chat, pc, root, cur, ret, result, picked,
                   completions, runs, faulty, events, streamVars, toolVars, planVars, auxVars>>

NextRun ==
    /\ pc = "returned"
    /\ runs < MaxRuns
    /\ pc' = "idle"
    /\ root' = 0
    /\ cur' = 0
    /\ ret' = NoRet
    /\ result' = "none"
    /\ picked' = NoPick
    /\ events' = {}
    /\ UNCHANGED <<ancestry, status, chat, completions, runs, faulty, streamVars, toolVars, planVars, auxVars>>

Next ==
    \/ ExecuteRootTask
    \/ GetChildTask
    \/ ExecuteTaskBegin
    \/ SendToAgent
    \/ SelfReflect
    \/ InterpretCodeBlocks
    \/ CallTools
    \/ FinishRootTask
    \/ FinishChildTask

NextRuns ==
    \/ Next
    \/ \E t \in Tasks : Execute(t)
    \/ NextRun

\* one run of the executor on any persisted forest, with a working emitter
Spec == Init /\ [][Next]_vars

\* runs of the executor on a freshly planned forest, with an emitter that
\* may fail
SpecFaulty == InitFaulty /\ [][NextRuns]_vars

(***************************************************************************)
(* The frames the LLM backend sends, as the bytes on the wire.             *)
(***************************************************************************)
\* data: {c"a b"}
ContentFrame == DATA_PREFIX \o <<"{", "c", "\"", "a", " ", "b", "\"", "}">>
\* data: {c"e_acute"}, the character as its two bytes
AccentFrame == DATA_PREFIX \o <<"{", "c", "\"", "xC3", "xA9", "\"", "}">>
\* data: {i"x"n"f"a"1"}
ToolCallFrame ==
    DATA_PREFIX \o <<"{", "i", "\"", "x", "\"", "n", "\"", "f", "\"",
                     "a", "\"", "1", "\"", "}">>
\* data: {i"y"a"3"}
OtherToolCallFrame ==
    DATA_PREFIX \o <<"{", "i", "\"", "y", "\"", "a", "\"", "3", "\"", "}">>
\* data: {a"\n2"}
ArgumentsFrame == DATA_PREFIX \o <<"{", "a", "\"", "\\", "n", "2", "\"", "}">>
\* {c"z"}: no "data: " prefix
NoPrefixFrame == <<"{", "c", "\"", "z", "\"", "}">>
\* data: {c"z: a JSON text that never ends
UnclosedFrame == DATA_PREFIX \o <<"{", "c", "\"", "z">>
\* data: {i0}: an id that is not a string
NumberIdFrame == DATA_PREFIX \o <<"{", "i", "0", "}">>

DeltaFrames ==
    {ContentFrame, AccentFrame, ToolCallFrame, OtherToolCallFrame, ArgumentsFrame}
UnparseableFrames == {NoPrefixFrame, UnclosedFrame}
WireFrames == DeltaFrames \cup UnparseableFrames \cup {NumberIdFrame, DONE_CHUNK}

\* every stream of at most MaxFrames frames
Streams == UNION {[1..n -> WireFrames] : n \in 0..MaxFrames}

RECURSIVE Concat(_)
Concat(chunks) ==
    IF chunks = <<>> THEN <<>> ELSE chunks[1] \o Concat(Drop(chunks, 1))

\* the chunks of the response body: every frame with its separator, either
\* one frame a chunk or all the frames in one chunk
WholeChunks(frames, one_chunk) ==
    LET each == [i \in 1..Len(frames) |-> frames[i] \o CHUNK_SEPARATOR]
    IN  IF one_chunk /\ frames # <<>> THEN <<Concat(each)>> ELSE each

\* the same bytes with one more chunk boundary after byte k (0: none)
RECURSIVE CutChunks(_, _)
CutChunks(chunks, k) ==
    IF chunks = <<>> \/ k <= 0 THEN chunks
    ELSE IF k >= Len(chunks[1])
    THEN <<chunks[1]>> \o CutChunks(Drop(chunks, 1), k - Len(chunks[1]))
    ELSE <<Take(chunks[1], k), Drop(chunks[1], k)>> \o Drop(chunks, 1)

Locals ==
    [message |-> message, row |-> row, chunk_remainder |-> chunk_remainder,
     err |-> "none"]

\* a completion is requested for a stream, a chunking of it and a cut; no
\* task is involved
InitStream ==
    /\ ancestry = [t \in Tasks |-> <<>>]
    /\ status = [t \in Tasks |-> "Draft"]
    /\ faulty = FALSE
    /\ chat = [t \in Tasks |-> <<>>]
    /\ pc = "completion"
    /\ root = 0
    /\ cur = 0
    /\ ret = NoRet
    /\ result = "none"
    /\ picked = NoPick
    /\ completions = 0
    /\ runs = 0
    /\ events = {}
    /\ NoToolExecution
    /\ NoPlanning
    /\ NoAux
    /\ sent \in Streams
    /\ joined \in BOOLEAN
    /\ cut \in 0..(Len(Concat(WholeChunks(sent, FALSE))) - 1)
    /\ net = CutChunks(WholeChunks(sent, joined), cut)
    /\ message = NoRow
    /\ row = NoRow
    /\ chunk_remainder = <<>>

\* create_completion up to the loop of create_completion_stream: the dummy
\* row, emit(MessageCreated), the request to the backend
CreateCompletion ==
    /\ pc = "completion"
    /\ \E ok \in Emit, opened \in BOOLEAN :
         IF ~ok
         THEN /\ message' = DummyMessage
              /\ row' = DummyMessage
              /\ pc' = "completion_returned"
              /\ result' = "EmitError"
         ELSE IF ~opened
         THEN /\ message' = [DummyMessage EXCEPT !.status = "Failed"]
              /\ row' = [DummyMessage EXCEPT !.status = "Failed"]
              /\ pc' = "completion_returned"
              /\ result' = "RequestError"
         ELSE /\ message' = DummyMessage
              /\ row' = DummyMessage
              /\ pc' = "streaming"
              /\ result' = "none"
    /\ chunk_remainder' = <<>>
    /\ UNCHANGED <<ancestry, status, chat, root, cur, ret, picked, completions,
                   runs, faulty, events, toolVars, planVars, auxVars, net, sent, joined, cut>>

\* response.chunk() gave Some(chunk)
ReceiveChunk ==
    /\ pc = "streaming"
    /\ net # <<>>
    /\ LET l == ProcessChunk(Locals, Head(net))
       IN  /\ message' = l.message
           /\ row' = l.row
           /\ chunk_remainder' = l.chunk_remainder
           /\ IF l.err # "none"
              THEN pc' = "completion_returned" /\ result' = l.err
              ELSE UNCHANGED <<pc, result>>
    /\ net' = Tail(net)
    /\ UNCHANGED <<ancestry, status, chat, root, cur, ret, picked, completions,
                   runs, faulty, events, toolVars, planVars, auxVars, sent, joined, cut>>

\* response.chunk() gave an error
TransportError ==
    /\ pc = "streaming"
    /\ LET l == fail_message(Locals)
       IN  message' = l.message /\ row' = l.row
    /\ pc' = "completion_returned"
    /\ result' = "TransportError"
    /\ UNCHANGED <<ancestry, status, chat, root, cur, ret, picked, completions,
                   runs, faulty, events, toolVars, planVars, auxVars, net, sent, joined, cut, chunk_remainder>>

\* response.chunk() gave None: create_completion_stream returns Ok and
\* create_completion looks at the message
StreamEnd ==
    /\ pc = "streaming"
    /\ net = <<>>
    /\ LET l == completion_result(Locals)
       IN  /\ message' = l.message
           /\ row' = l.row
           /\ result' = IF l.err = "none" THEN "Ok" ELSE l.err
    /\ pc' = "completion_returned"
    /\ UNCHANGED <<ancestry, status, chat, root, cur, ret, picked, completions,
                   runs, faulty, events, toolVars, planVars, auxVars, net, sent, joined, cut, chunk_remainder>>

NextStream ==
    \/ CreateCompletion
    \/ ReceiveChunk
    \/ TransportError
    \/ StreamEnd

\* one streaming completion, with a working emitter
SpecStream == InitStream /\ [][NextStream]_vars

\* a freshly planned forest and a working emitter
InitPlanned ==
    /\ \E par \in ParentFns : ancestry = [t \in Tasks |-> AncestryOf(par, t)]
    /\ status = [t \in Tasks |-> IF ancestry[t] = <<>> THEN "ToDo" ELSE "Draft"]
    /\ faulty = FALSE
    /\ InitWorker

\* an assistant message from its streaming completion to the dispatch of its
\* tool calls: either one completion, or one run of the executor on a freshly
\* planned forest
InitMessage == InitStream \/ InitPlanned

NextMessage == NextStream \/ Next

SpecMessage == InitMessage /\ [][NextMessage]_vars

(***************************************************************************)
(* abilities.rs: execute_for_message(pool, channel, cid, uid, _, message). *)
(* A Uuid is one of two values, so that cid and uid may differ or be the   *)
(* same; the id of a tool call is its position in the message's list; a    *)
(* handle is the position of the call it executes and how far that         *)
(* execution got.                                                          *)
(***************************************************************************)
Uuids == {"u1", "u2"}

starts_with_sfai(name) == name \in ToolNames \ {"other"}

CallLists == UNION {[1..n -> {"sfai_done", "other"}] : n \in 0..MaxCalls}

RECURSIVE spawn_handles(_, _)
spawn_handles(calls, i) ==
    IF i > Len(calls) THEN <<>>
    ELSE IF starts_with_sfai(calls[i]) THEN spawn_handles(calls, i + 1)
    ELSE <<[call |-> i, state |-> "running"]>> \o spawn_handles(calls, i + 1)

\* repo/messages.rs: UPDATE messages SET status WHERE company_id AND id
update_status(table, company_id, st) ==
    [c \in DOMAIN table |->
        IF c = company_id /\ table[c] # "none" THEN st ELSE table[c]]

InitTools ==
    /\ ancestry = [t \in Tasks |-> <<>>]
    /\ status = [t \in Tasks |-> "Draft"]
    /\ faulty = FALSE
    /\ chat = [t \in Tasks |-> <<>>]
    /\ pc = "tools"
    /\ root = 0
    /\ cur = 0
    /\ ret = NoRet
    /\ result = "none"
    /\ picked = NoPick
    /\ completions = 0
    /\ runs = 1
    /\ events = {}
    /\ sent = <<>>
    /\ joined = FALSE
    /\ cut = 0
    /\ net = <<>>
    /\ message = DummyMessage
    /\ row = NoRow
    /\ chunk_remainder = <<>>
    /\ \E c \in Uuids, u \in Uuids, a \in BOOLEAN, l \in CallLists :
         /\ request = [cid |-> c, uid |-> u, agent_id |-> a, calls |-> l]
         /\ rows = [t \in Uuids |->
                      IF t # c THEN "none"
                      ELSE IF l = <<>> THEN "Completed" ELSE "WaitingForToolCall"]
    /\ handles = <<>>
    /\ finished = <<>>
    /\ awaited = 0
    /\ tool_messages = <<>>
    /\ created = <<>>
    /\ NoPlanning
    /\ NoAux

\* lines 100-142: the two early returns, then one spawn per call whose name
\* does not start with sfai_
ExecuteForMessage ==
    /\ pc = "tools"
    /\ IF ~request.agent_id
       THEN /\ pc' = "tools_returned"
            /\ result' = "NoAgent"
            /\ UNCHANGED handles
       ELSE IF request.calls = <<>>
       THEN /\ pc' = "tools_returned"
            /\ result' = "NoToolCalls"
            /\ UNCHANGED handles
       ELSE /\ pc' = "awaiting"
            /\ result' = "none"
            /\ handles' = spawn_handles(request.calls, 1)
    /\ UNCHANGED <<ancestry, status, chat, root, cur, ret, picked, completions,
                   runs, faulty, events, streamVars, planVars, auxVars, request, finished, awaited,
                   tool_messages, created, rows>>

\* lines 123-139: a spawned execution ends, with CreateParams or an error,
\* whatever execute_for_message is doing and whether it has returned
ToolFinishes ==
    /\ \E h \in 1..Len(handles), ok \in BOOLEAN :
         /\ handles[h].state = "running"
         /\ handles' = [handles EXCEPT ![h].state = IF ok THEN "ok" ELSE "err"]
         /\ finished' = Append(finished, h)
    /\ UNCHANGED <<ancestry, status, chat, pc, root, cur, ret, result, picked,
                   completions, runs, faulty, events, streamVars, planVars, auxVars, request,
                   awaited, tool_messages, created, rows>>

\* lines 144-155: one turn of `for handle in handles`: the await returns
\* when that handle's execution has ended
AwaitHandle ==
    /\ pc = "awaiting"
    /\ awaited < Len(handles)
    /\ LET h == awaited + 1 IN
         /\ handles[h].state # "running"
         /\ awaited' = h
         /\ IF handles[h].state = "err"
            THEN /\ pc' = "tools_returned"
                 /\ result' = "ToolError"
                 /\ UNCHANGED <<tool_messages, created>>
            ELSE /\ tool_messages' = Append(tool_messages, handles[h].call)
                 /\ \E ok \in Emit :
                      IF ok
                      THEN /\ created' = Append(created, handles[h].call)
                           /\ UNCHANGED <<pc, result>>
                      ELSE /\ pc' = "tools_returned"
                           /\ result' = "EmitError"
                           /\ UNCHANGED created
    /\ UNCHANGED <<ancestry, status, chat, root, cur, ret, picked, completions,
                   runs, faulty, events, streamVars, planVars, auxVars, request, handles, finished,
                   rows>>

\* lines 157-160: update_status(pool, uid, message.id, Completed)
MarkCompleted ==
    /\ pc = "awaiting"
    /\ awaited = Len(handles)
    /\ rows' = update_status(rows, request.uid, "Completed")
    /\ pc' = "tools_returned"
    /\ result' = "Ok"
    /\ UNCHANGED <<ancestry, status, chat, root, cur, ret, picked, completions,
                   runs, faulty, events, streamVars, planVars, auxVars, request, handles, finished,
                   awaited, tool_messages, created>>

NextTools ==
    \/ ExecuteForMessage
    \/ ToolFinishes
    \/ AwaitHandle
    \/ MarkCompleted

\* one call of execute_for_message, with a working emitter
SpecTools == InitTools /\ [][NextTools]_vars

(***************************************************************************)
(* task_planner.rs: TaskPlanner::plan.  A row of the tasks table holds the *)
(* ancestry column (NULL, or the text of the ancestors' ids joined by "/"),*)
(* the ancestry_level column, the status and the agent_id.  The row at     *)
(* position p of the table has the id FirstId + p - 1.  An activation of   *)
(* plan holds the position of its task, the sub-tasks of its plan (their   *)
(* agent ids) and the position of the `for sub_task in plan.tasks` loop    *)
(* (0: plan has not run yet).                                              *)
(***************************************************************************)
\* the id of the first row: ids of one and of two digits occur
FirstId == 9

TaskId(p) == FirstId + p - 1

\* Option<String>
NoneText == [some |-> FALSE, text |-> <<>>]
SomeText(t) == [some |-> TRUE, text |-> t]

Digits == <<"0", "1", "2", "3", "4", "5", "6", "7", "8", "9">>

\* i32::to_string of a positive id
RECURSIVE to_string(_)
to_string(n) ==
    IF n < 10 THEN <<Digits[n + 1]>>
    ELSE to_string(n \div 10) \o <<Digits[(n % 10) + 1]>>

\* str::parse::<i32> of a segment (-1: the segment is not a number)
RECURSIVE parse_digits(_, _)
parse_digits(t, acc) ==
    IF t = <<>> THEN acc
    ELSE IF \E d \in 0..9 : Digits[d + 1] = t[1]
    THEN parse_digits(Drop(t, 1), 10 * acc + (CHOOSE d \in 0..9 : Digits[d + 1] = t[1]))
    ELSE -1

parse_id(t) == IF t = <<>> THEN -1 ELSE parse_digits(t, 0)

\* str::split('/'): the segments between the slashes; a text without a
\* slash, the empty one included, is one segment
RECURSIVE split_slash(_, _)
split_slash(t, seg) ==
    IF t = <<>> THEN <<seg>>
    ELSE IF t[1] = "/" THEN <<seg>> \o split_slash(Drop(t, 1), <<>>)
    ELSE split_slash(Drop(t, 1), Append(seg, t[1]))

\* types/tasks.rs: Task::parent_id of a row (0: None, -1: an error)
row_parent_id(r) ==
    IF ~r.ancestry.some THEN 0
    ELSE LET segs == split_slash(r.ancestry.text, <<>>)
         IN  parse_id(segs[Len(segs)])
\* lines 121-126
planning_unavailable_in_progress_only(st) == st = "InProgress"
planning_unavailable(st) == st \in {"ToDo", "InProgress"}


\* the arguments of a tool call: whether serde_json parses them, and the
\* agent ids they name (of the planned sub-tasks, or the one to assign)
Arguments(l) == [parses |-> TRUE, agents |-> l]
Unparseable == [parses |-> FALSE, agents |-> <<>>]

PlanCall(k) == [name |-> "sfai_plan_task_execution", arguments |-> Arguments([i \in 1..k |-> i])]
AssignCall == [name |-> "sfai_assign_to_agent", arguments |-> Arguments(<<2>>)]
BadPlanCall == [name |-> "sfai_plan_task_execution", arguments |-> Unparseable]
BadAssignCall == [name |-> "sfai_assign_to_agent", arguments |-> Unparseable]
OtherCall == [name |-> "other", arguments |-> Unparseable]

\* the answers of the LLM: every single call, no call, the two planner calls
\* in both orders, and a message that is not an assistant message
Responses ==
    {[role |-> "Assistant", tool_calls |-> l] :
        l \in {<<>>, <<AssignCall>>, <<BadPlanCall>>, <<BadAssignCall>>, <<OtherCall>>,
               <<AssignCall, PlanCall(MaxPlan)>>, <<PlanCall(MaxPlan), AssignCall>>}
              \cup {<<PlanCall(k)>> : k \in 0..MaxPlan}}
    \cup {[role |-> "User", tool_calls |-> <<>>]}

None == [kind |-> "None", tasks |-> <<>>]
ParseError == [kind |-> "Err", tasks |-> <<>>]
ExecutionPlan(l) == [kind |-> "Some", tasks |-> l]

\* lines 229-259: the last planner call of the answer decides; arguments
\* that do not parse end the loop with an error
RECURSIVE plan_from_calls(_, _, _)
plan_from_calls(calls, i, plan) ==
    IF i > Len(calls) THEN plan
    ELSE IF calls[i].name \notin {"sfai_plan_task_execution", "sfai_assign_to_agent"}
    THEN plan_from_calls(calls, i + 1, plan)
    ELSE IF ~calls[i].arguments.parses THEN ParseError
    ELSE IF calls[i].name = "sfai_plan_task_execution"
    THEN plan_from_calls(calls, i + 1, ExecutionPlan(calls[i].arguments.agents))
    ELSE plan_from_calls(calls, i + 1, ExecutionPlan(<<calls[i].arguments.agents[1]>>))

plan_from_response(resp) == plan_from_calls(resp.tool_calls, 1, None)

\* types/tasks.rs: Task::children_ancestry of the row at this position
row_children_ancestry(table, p) ==
    IF table[p].ancestry.some
    THEN table[p].ancestry.text \o <<"/">> \o to_string(TaskId(p))
    ELSE to_string(TaskId(p))

\* repo/tasks.rs: create; ancestry_level counts the segments of the
\* ancestry, the status is the default one
create_level_counts_slashes(table, agent_id, anc) ==
    Append(table, [ancestry |-> anc,
                   ancestry_level |-> Len(SelectSeq(anc.text, LAMBDA c : c = "/")),
                   status |-> "Draft", agent_id |-> agent_id])
create(table, agent_id, anc) ==
    Append(table, [ancestry |-> anc,
                   ancestry_level |-> IF anc.some
                                      THEN Len(split_slash(anc.text, <<>>))
                                      ELSE 0,
                   status |-> "Draft", agent_id |-> agent_id])

\* the tasks the repository holds when plan is called: a root and below it
\* a chain of n tasks, each created with the children_ancestry of the one
\* above it
RECURSIVE ChainOfTasks(_)
ChainOfTasks(n) ==
    IF n = 0 THEN create(<<>>, 0, NoneText)
    ELSE LET above == ChainOfTasks(n - 1)
         IN  create(above, 0, SomeText(row_children_ancestry(above, Len(above))))

\* repo/tasks.rs: assign
assign_nothing(table, id, agent_id) == table
assign(table, id, agent_id) == [table EXCEPT ![id].agent_id = agent_id]

\* line 185
depth_limit_reached_above(level, lim) == level > lim
depth_limit_reached(level, lim) == level >= lim

TaskCreated(id) == <<"TaskCreated", id>>
PlannerTaskUpdated(id) == <<"TaskUpdated", id>>

Activation(id) == [task |-> id, plan |-> <<>>, next |-> 0]

Front(q) == SubSeq(q, 1, Len(q) - 1)

\* a task of any status at any level up to MaxLevel, below a chain of
\* ancestors; its caller calls plan for it
InitPlan ==
    /\ ancestry = [t \in Tasks |-> <<>>]
    /\ status = [t \in Tasks |-> "Draft"]
    /\ faulty = FALSE
    /\ chat = [t \in Tasks |-> <<>>]
    /\ pc = "plan"
    /\ root = 0
    /\ cur = 0
    /\ ret = NoRet
    /\ result = "none"
    /\ picked = NoPick
    /\ completions = 0
    /\ runs = 1
    /\ events = {}
    /\ sent = <<>>
    /\ joined = FALSE
    /\ cut = 0
    /\ net = <<>>
    /\ message = DummyMessage
    /\ row = NoRow
    /\ chunk_remainder = <<>>
    /\ NoToolExecution
    /\ NoAux
    /\ \E level \in 0..MaxLevel, st \in Status :
         /\ tasks_table = [p \in 1..(level + 1) |->
                            [ChainOfTasks(level)[p] EXCEPT
                                !.status = IF p = level + 1 THEN st ELSE "InProgress"]]
         /\ planned = level + 1
         /\ stack = <<Activation(level + 1)>>
    /\ response = NoResponse
    /\ requests = 0
    /\ emitted = <<>>
    /\ planning_depth_limit \in 0..MaxDepthLimit

\* an error leaves every activation through the `?` of lines 123-214
PlanFails(error) ==
    /\ stack' = <<>>
    /\ pc' = "plan_returned"
    /\ result' = error

\* `return Ok(())` of the running activation
PlanReturns ==
    /\ stack' = Front(stack)
    /\ pc' = IF Len(stack) = 1 THEN "plan_returned" ELSE pc
    /\ result' = IF Len(stack) = 1 THEN "Ok" ELSE result

\* lines 120-193: the status guard, the request and what the plan of the
\* answer leads to, up to the loop over the sub-tasks
Plan ==
    /\ pc = "plan"
    /\ stack # <<>>
    /\ stack[Len(stack)].next = 0
    /\ LET task == stack[Len(stack)].task IN
       IF planning_unavailable(tasks_table[task].status)
       THEN /\ PlanFails("PlanningUnavailable")
            /\ UNCHANGED <<tasks_table, response, requests, emitted>>
       ELSE \/ /\ PlanFails("SetupError")
               /\ UNCHANGED <<tasks_table, response, requests, emitted>>
            \/ /\ requests < MaxRequests
               /\ requests' = requests + 1
               /\ \/ /\ PlanFails("RequestError")
                     /\ response' = NoResponse
                     /\ UNCHANGED <<tasks_table, emitted>>
                  \/ \E resp \in Responses :
                       /\ response' = resp
                       /\ LET plan == plan_from_response(resp) IN
                          IF resp.role # "Assistant"
                          THEN /\ PlanFails("NonAssistantMessage")
                               /\ UNCHANGED <<tasks_table, emitted>>
                          ELSE IF plan.kind = "Err"
                          THEN /\ PlanFails("ParseError")
                               /\ UNCHANGED <<tasks_table, emitted>>
                          ELSE IF plan.kind = "None"
                          THEN /\ PlanFails("EmptyPlanReceived")
                               /\ UNCHANGED <<tasks_table, emitted>>
                          ELSE IF plan.tasks = <<>>
                          THEN /\ PlanFails("EmptyPlan")
                               /\ UNCHANGED <<tasks_table, emitted>>
                          ELSE IF Len(plan.tasks) = 1
                          THEN /\ tasks_table' = assign(tasks_table, task, plan.tasks[1])
                               /\ \E ok \in Emit :
                                    IF ok
                                    THEN /\ emitted' = Append(emitted, PlannerTaskUpdated(task))
                                         /\ PlanReturns
                                    ELSE /\ PlanFails("EmitError")
                                         /\ UNCHANGED emitted
                          ELSE IF depth_limit_reached(tasks_table[task].ancestry_level,
                                                      planning_depth_limit)
                          THEN /\ PlanReturns
                               /\ UNCHANGED <<tasks_table, emitted>>
                          ELSE /\ stack' = [stack EXCEPT ![Len(stack)] =
                                              [task |-> task, plan |-> plan.tasks, next |-> 1]]
                               /\ UNCHANGED <<pc, result, tasks_table, emitted>>
    /\ UNCHANGED <<ancestry, status, chat, root, cur, ret, picked, completions,
                   runs, faulty, events, streamVars, toolVars, auxVars, planned,
                   planning_depth_limit>>

\* lines 195-214: one turn of the loop creates the sub-task, emits
\* TaskCreated and calls plan for it
PlanSubTask ==
    /\ pc = "plan"
    /\ stack # <<>>
    /\ LET top == stack[Len(stack)] IN
         /\ top.next \in 1..Len(top.plan)
         /\ tasks_table' = create(tasks_table, top.plan[top.next],
                                  SomeText(row_children_ancestry(tasks_table, top.task)))
         /\ \E ok \in Emit :
              IF ok
              THEN /\ emitted' = Append(emitted, TaskCreated(Len(tasks_table')))
                   /\ stack' = Append([stack EXCEPT ![Len(stack)].next = top.next + 1],
                                      Activation(Len(tasks_table')))
                   /\ UNCHANGED <<pc, result>>
              ELSE /\ PlanFails("EmitError")
                   /\ UNCHANGED emitted
    /\ UNCHANGED <<ancestry, status, chat, root, cur, ret, picked, completions,
                   runs, faulty, events, streamVars, toolVars, auxVars, planned, response,
                   requests, planning_depth_limit>>

\* lines 215-217: the loop is over
PlanLoopEnds ==
    /\ pc = "plan"
    /\ stack # <<>>
    /\ stack[Len(stack)].next > Len(stack[Len(stack)].plan)
    /\ PlanReturns
    /\ UNCHANGED <<ancestry, status, chat, root, cur, ret, picked, completions,
                   runs, faulty, events, streamVars, toolVars, auxVars, tasks_table,
                   planned, response, requests, emitted, planning_depth_limit>>

NextPlan ==
    \/ Plan
    \/ PlanSubTask
    \/ PlanLoopEnds

\* one call of plan, with a working emitter
SpecPlan == InitPlan /\ [][NextPlan]_vars

(***************************************************************************)
(* database.rs: prepare, the recovery at startup.  The persisted state is  *)
(* the status of every task and of every message; the messages are those   *)
(* of the chat of task 1.                                                  *)
(***************************************************************************)
\* types/messages.rs: Status
MessageStatus == {"Writing", "WaitingForToolCall", "Completed", "Failed", "ToolCallDenied"}

\* repo/messages.rs: UPDATE messages SET status = to WHERE status = from
messages_transition_all(c, from, to) ==
    [t \in DOMAIN c |->
        [i \in 1..Len(c[t]) |->
            IF c[t][i].status = from THEN [c[t][i] EXCEPT !.status = to] ELSE c[t][i]]]

\* repo/tasks.rs: UPDATE tasks SET status = to WHERE status = from
tasks_transition_all_rows(s, from, to) == [t \in DOMAIN s |-> to]
tasks_transition_all(s, from, to) ==
    [t \in DOMAIN s |-> IF s[t] = from THEN to ELSE s[t]]

\* the messages a process leaves behind
PersistedChats ==
    UNION {[1..n -> {AssistantMessage(<<>>, FALSE, st, FALSE) : st \in MessageStatus}] :
              n \in 0..MaxMessages}

\* any persisted state: the process before may have stopped anywhere
InitRecovery ==
    /\ ancestry = [t \in Tasks |-> <<>>]
    /\ status \in [Tasks -> Status]
    /\ faulty = FALSE
    /\ \E c \in PersistedChats : chat = [t \in Tasks |-> IF t = 1 THEN c ELSE <<>>]
    /\ pc = "prepare"
    /\ root = 0
    /\ cur = 0
    /\ ret = NoRet
    /\ result = "none"
    /\ picked = NoPick
    /\ completions = 0
    /\ runs = 0
    /\ events = {}
    /\ sent = <<>>
    /\ joined = FALSE
    /\ cut = 0
    /\ net = <<>>
    /\ message = DummyMessage
    /\ row = NoRow
    /\ chunk_remainder = <<>>
    /\ NoToolExecution
    /\ NoPlanning
    /\ NoAux

\* lines 42-66: the migrations, then the two updates, each of which may
\* fail and end prepare with what was written before it
Prepare ==
    /\ pc = "prepare"
    /\ pc' = "prepare_returned"
    /\ \/ /\ result' \in {"MigrateError", "MessagesError"}
          /\ UNCHANGED <<status, chat>>
       \/ /\ result' = "TasksError"
          /\ chat' = messages_transition_all(chat, "Writing", "Failed")
          /\ UNCHANGED status
       \/ /\ result' = "Ok"
          /\ chat' = messages_transition_all(chat, "Writing", "Failed")
          /\ status' = tasks_transition_all(status, "InProgress", "ToDo")
    /\ UNCHANGED <<ancestry, root, cur, ret, picked, completions, runs, faulty,
                   events, streamVars, toolVars, planVars, auxVars>>

NextRecovery == Prepare

\* one start of the process
SpecRecovery == InitRecovery /\ [][NextRecovery]_vars

(***************************************************************************)
(* chats.rs: cleanup_json_string_newlines applied to a text, and again to  *)
(* what it returned.  The texts are made of the quote, the backslash, the  *)
(* newline, a letter and the blank.                                        *)
(***************************************************************************)
JsonChars == {"\"", "\\", "\n", "a", " "}

JsonTexts == UNION {[1..n -> JsonChars] : n \in 0..MaxText}

InitCleanup ==
    /\ ancestry = [t \in Tasks |-> <<>>]
    /\ status = [t \in Tasks |-> "Draft"]
    /\ faulty = FALSE
    /\ chat = [t \in Tasks |-> <<>>]
    /\ pc = "cleanup"
    /\ root = 0
    /\ cur = 0
    /\ ret = NoRet
    /\ result = "none"
    /\ picked = NoPick
    /\ completions = 0
    /\ runs = 0
    /\ events = {}
    /\ sent = <<>>
    /\ joined = FALSE
    /\ cut = 0
    /\ net = <<>>
    /\ message = DummyMessage
    /\ row = NoRow
    /\ chunk_remainder = <<>>
    /\ NoToolExecution
    /\ NoPlanning
    /\ json_str \in JsonTexts
    /\ cleaned = <<>>
    /\ cleaned_twice = <<>>
    /\ NoDocker
    /\ NoHelpers

CleanupOnce ==
    /\ pc = "cleanup"
    /\ cleaned' = cleanup_json_string_newlines(json_str)
    /\ pc' = "cleaned"
    /\ UNCHANGED <<ancestry, status, chat, root, cur, ret, result, picked,
                   completions, runs, faulty, events, streamVars, toolVars,
                   planVars, json_str, cleaned_twice, dockerVars, helperVars>>

CleanupTwice ==
    /\ pc = "cleaned"
    /\ cleaned_twice' = cleanup_json_string_newlines(cleaned)
    /\ pc' = "cleaned_twice"
    /\ UNCHANGED <<ancestry, status, chat, root, cur, ret, result, picked,
                   completions, runs, faulty, events, streamVars, toolVars,
                   planVars, json_str, cleaned, dockerVars, helperVars>>

NextCleanup ==
    \/ CleanupOnce
    \/ CleanupTwice

\* the function applied twice to one text
SpecCleanup == InitCleanup /\ [][NextCleanup]_vars

(***************************************************************************)
(* docker.rs: run_in_container.  The container is none (not created),      *)
(* created, running or removed.  The attached output is a sequence of      *)
(* items: a message of one character, or "Err", an error of the stream.    *)
(* Every call to the Docker daemon may fail.                               *)
(***************************************************************************)
OutputItems == {"a", " ", "Err"}

Outputs == UNION {[1..n -> OutputItems] : n \in 0..MaxOutput}

InitDocker ==
    /\ ancestry = [t \in Tasks |-> <<>>]
    /\ status = [t \in Tasks |-> "Draft"]
    /\ faulty = FALSE
    /\ chat = [t \in Tasks |-> <<>>]
    /\ pc = "create_image"
    /\ root = 0
    /\ cur = 0
    /\ ret = NoRet
    /\ result = "none"
    /\ picked = NoPick
    /\ completions = 0
    /\ runs = 0
    /\ events = {}
    /\ sent = <<>>
    /\ joined = FALSE
    /\ cut = 0
    /\ net = <<>>
    /\ message = DummyMessage
    /\ row = NoRow
    /\ chunk_remainder = <<>>
    /\ NoToolExecution
    /\ NoPlanning
    /\ NoCleanup
    /\ has_binds \in BOOLEAN
    /\ container = "none"
    /\ output \in Outputs
    /\ script_out = <<>>
    /\ NoHelpers

\* the `?` after a call to the daemon
DockerFails(error) ==
    /\ pc' = "run_returned"
    /\ result' = error

DockerUnchanged ==
    UNCHANGED <<ancestry, status, chat, root, cur, ret, picked, completions,
                runs, faulty, events, streamVars, toolVars, planVars,
                cleanupVars, helperVars, has_binds>>

\* lines 76-89: connect and pull the image
CreateImage ==
    /\ pc = "create_image"
    /\ \/ DockerFails("ConnectError")
       \/ DockerFails("CreateImageError")
       \/ pc' = "create_container" /\ UNCHANGED result
    /\ UNCHANGED <<container, output, script_out>>
    /\ DockerUnchanged

\* lines 91-107: create the container, with auto_remove
CreateContainer ==
    /\ pc = "create_container"
    /\ \/ DockerFails("CreateContainerError") /\ UNCHANGED container
       \/ pc' = "start_container" /\ container' = "created" /\ UNCHANGED result
    /\ UNCHANGED <<output, script_out>>
    /\ DockerUnchanged

\* lines 109-112
StartContainer ==
    /\ pc = "start_container"
    /\ \/ DockerFails("StartContainerError") /\ UNCHANGED container
       \/ pc' = "create_exec" /\ container' = "running" /\ UNCHANGED result
    /\ UNCHANGED <<output, script_out>>
    /\ DockerUnchanged

\* the main process of a running container ends: the daemon removes the
\* container, as auto_remove asks
ContainerExits ==
    /\ container = "running"
    /\ container' = "removed"
    /\ UNCHANGED <<pc, result, output, script_out>>
    /\ DockerUnchanged

\* lines 123-136: create_exec succeeds only in a running container
CreateExec ==
    /\ pc = "create_exec"
    /\ \/ DockerFails("CreateExecError")
       \/ container = "running" /\ pc' = "start_exec" /\ UNCHANGED result
    /\ UNCHANGED <<container, output, script_out>>
    /\ DockerUnchanged

\* lines 138-142: start_exec; a detached result skips the loop
StartExec ==
    /\ pc = "start_exec"
    /\ \/ DockerFails("StartExecError")
       \/ container = "running" /\ pc' = "drain" /\ UNCHANGED result
       \/ container = "running" /\ pc' = "remove_container" /\ UNCHANGED result
    /\ UNCHANGED <<container, output, script_out>>
    /\ DockerUnchanged

\* lines 143-145: `while let Some(Ok(msg)) = output.next().await`
DrainOutput ==
    /\ pc = "drain"
    /\ IF output = <<>> \/ output[1] = "Err"
       THEN /\ pc' = "remove_container"
            /\ UNCHANGED <<output, script_out>>
       ELSE /\ script_out' = Append(script_out, output[1])
            /\ output' = Drop(output, 1)
            /\ UNCHANGED pc
    /\ UNCHANGED <<result, container>>
    /\ DockerUnchanged

\* lines 148-161: remove_container with force, then the trimmed output
remove_container(c) == "removed"

RemoveContainer ==
    /\ pc = "remove_container"
    /\ \/ DockerFails("RemoveContainerError") /\ UNCHANGED <<container, script_out>>
       \/ /\ container' = remove_container(container)
          /\ script_out' = trim(script_out)
          /\ pc' = "run_returned"
          /\ result' = "Ok"
    /\ UNCHANGED output
    /\ DockerUnchanged

NextDocker ==
    \/ CreateImage
    \/ CreateContainer
    \/ StartContainer
    \/ ContainerExits
    \/ CreateExec
    \/ StartExec
    \/ DrainOutput
    \/ RemoveContainer

\* one call of run_in_container
SpecDocker == InitDocker /\ [][NextDocker]_vars

(***************************************************************************)
(* Properties of the task executor.                                        *)
(***************************************************************************)
Descendants(r) == {t \in Tasks : ancestry[t] # <<>> /\ ancestry[t][1] = r}
Children(p) == {t \in Tasks : parent_id(t) = p}
Candidates == {"Draft", "ToDo", "WaitingForUser", "Failed"}

\* C1: the child picker answers with nothing or with a task whose status at
\* pick time was Draft, ToDo, WaitingForUser or Failed; never with a task that
\* was InProgress or Done.
C1_PickerReturnsCandidatesOnly ==
    picked.task # 0 => picked.status \in Candidates

\* C1 witness: a WaitingForUser task was picked after an older task of the
\* same tree that is Done was passed over.
C1_Witness ==
    /\ picked.task # 0
    /\ picked.status = "WaitingForUser"
    /\ \E u \in Descendants(root) : u < picked.task /\ status[u] = "Done"

\* C2: once the dialog loop of a task has ended on a terminal verb (execute_task
\* returned Ok(status)) and the caller has handled the answer, the task's
\* persisted status is that verb's status, for a root and for a child alike.
C2_TerminalVerbSetsStatus ==
    (pc \in {"children", "returned"} /\ cur # 0 /\ ret.kind = "ok")
        => status[cur] = ret.status

\* C2 witness: a root without children ended on sfai_wait_for_user and is
\* WaitingForUser.
C2_Witness ==
    /\ pc = "returned"
    /\ cur # 0 /\ cur = root
    /\ ret = [kind |-> "ok", status |-> "WaitingForUser"]
    /\ status[cur] = "WaitingForUser"

\* C3: when execute_root_task has returned success after executing a task two
\* or more levels below the root, and every descendant of the root is Done,
\* the root is Done.
C3_RollUpReachesRoot ==
    (/\ pc = "returned"
     /\ result = "Ok"
     /\ cur # 0
     /\ Len(ancestry[cur]) >= 2
     /\ \A t \in Descendants(root) : status[t] = "Done")
        => status[root] = "Done"

\* C3 witness: one level of roll-up: the last child of the root finished and
\* the root was set to Done.
C3_Witness ==
    /\ pc = "returned"
    /\ result = "Ok"
    /\ cur # 0 /\ parent_id(cur) = root
    /\ Cardinality(Children(root)) >= 2
    /\ status[root] = "Done"

\* C4: whenever a step sets a task that has children to Done, every direct
\* child of that task is Done after the step.
C4_ParentDoneOnlyIfChildrenDone ==
    [][\A t \in Tasks :
         (status[t] # "Done" /\ status'[t] = "Done" /\ Children(t) # {})
            => \A c \in Children(t) : status'[c] = "Done"]_vars

C6_StepsLimitBoundsLoop ==
    [][(completions' = completions + 1)
          => get_execution_steps_count(chat[cur]) < ExecutionStepsLimit]_vars

(***************************************************************************)
(* Properties of the streaming completion.                                 *)
(***************************************************************************)
\* the completion of the same frames with no chunk boundary inside a frame
RECURSIVE ProcessChunks(_, _, _)
ProcessChunks(l, chunks, i) ==
    IF i > Len(chunks) \/ l.err # "none" THEN l
    ELSE ProcessChunks(ProcessChunk(l, chunks[i]), chunks, i + 1)

UncutCompletion ==
    completion_result(
        ProcessChunks([message |-> DummyMessage, row |-> DummyMessage,
                       chunk_remainder |-> <<>>, err |-> "none"],
                      WholeChunks(sent, joined), 1))

\* the tool calls the frames describe: one entry for each frame with a string
\* id, extended by the fragments of the frames without id that follow it;
\* fragments that come before any id start an entry without id
RECURSIVE DescribedToolCalls(_, _, _)
DescribedToolCalls(frames, i, acc) ==
    IF i > Len(frames) THEN acc
    ELSE LET delta == from_str(Drop(frames[i], Len(DATA_PREFIX))).value
         IN  IF delta.i.kind = "string"
             THEN DescribedToolCalls(frames, i + 1,
                      Append(acc, [id        |-> delta.i.str,
                                   name      |-> delta.n.str,
                                   arguments |-> delta.a.str]))
             ELSE IF delta.n = Absent /\ delta.a = Absent
             THEN DescribedToolCalls(frames, i + 1, acc)
             ELSE IF acc = <<>>
             THEN DescribedToolCalls(frames, i + 1,
                      <<[id        |-> <<>>,
                         name      |-> delta.n.str,
                         arguments |-> delta.a.str]>>)
             ELSE DescribedToolCalls(frames, i + 1,
                      [acc EXCEPT ![Len(acc)] =
                          [id        |-> @.id,
                           name      |-> @.name \o delta.n.str,
                           arguments |-> @.arguments \o delta.a.str]])

C8_UnparseableFrameFails ==
    (/\ pc = "completion_returned"
     /\ cut = 0
     /\ \E i \in 1..Len(sent) : sent[i] \in UnparseableFrames)
        => row.status = "Failed" /\ result # "Ok"

\* C9: when a stream of well-formed frames has been received with one frame
\* cut into two chunks, the content and the tool calls of the message are
\* those of the same stream received without the cut.
C9_CutFrameParsesAsWhole ==
    (/\ pc = "completion_returned"
     /\ result \in {"Ok", "NoCompletion", "ChunkError"}
     /\ \A i \in 1..Len(sent) : sent[i] \in DeltaFrames \cup {DONE_CHUNK})
        => /\ message.content = UncutCompletion.message.content
           /\ message.tool_calls = UncutCompletion.message.tool_calls

\* C10: when every frame of a stream of delta frames has been applied, the
\* tool calls of the message are one entry for each frame that bears an id,
\* in stream order, each with the concatenated fragments of that frame and
\* of the frames without id after it.
C10_ToolCallsFollowFrames ==
    (/\ pc = "streaming"
     /\ net = <<>>
     /\ cut = 0
     /\ \A i \in 1..Len(sent) : sent[i] \in DeltaFrames)
        => tool_calls(message) = DescribedToolCalls(sent, 1, <<>>)

(***************************************************************************)
(* Properties of messages, events and tool calls.                          *)
(***************************************************************************)
\* the assistant message of chat c at position i has tool calls
HasToolCalls(c, i) == c[i].role = "Assistant" /\ Len(c[i].tools) > 0

\* C11: a row that [DONE] finalized is WaitingForToolCall exactly when its
\* tool calls are non-empty and Completed otherwise; and an assistant message
\* with tool calls that the executor has dispatched without error is
\* Completed.
C11_ToolCallMessageStatus ==
    /\ row.status \in {"Completed", "WaitingForToolCall"}
          => (row.status = "WaitingForToolCall") = (row.tool_calls # <<>>)
    /\ (pc = "completion_returned" /\ result = "Ok")
          => row.status \in {"Completed", "WaitingForToolCall"}
    /\ \A t \in Tasks : \A i \in 1..Len(chat[t]) :
          (/\ HasToolCalls(chat[t], i)
           /\ ~(t = cur /\ i = Len(chat[t]) /\ pc = "dialog")
           /\ ret.kind # "err")
             => chat[t][i].status = "Completed"

\* C11 witness: a completion whose stream carried a tool call and [DONE]
\* returned Ok with the row WaitingForToolCall.
C11_Witness ==
    /\ pc = "completion_returned"
    /\ result = "Ok"
    /\ row.status = "WaitingForToolCall"
    /\ Len(row.tool_calls) >= 1

\* C12: when execute_root_task has returned because an emit failed, no task
\* is InProgress and no message of an execution chat is Writing.
C12_EmitFailureLeavesStateClean ==
    (pc = "returned" /\ result = "EmitError")
        => /\ \A t \in Tasks : status[t] # "InProgress"
           /\ \A t \in Tasks : \A i \in 1..Len(chat[t]) :
                 chat[t][i].status # "Writing"

\* C13: when execute_root_task has returned the error of a task's execution,
\* a TaskUpdated event carrying Failed was emitted for the failing task and
\* for each of its ancestors.
C13_FailedTasksAreAnnounced ==
    (pc = "returned" /\ result = "TaskError" /\ cur # 0)
        => \A t \in {cur} \cup {ancestry[cur][i] : i \in 1..Len(ancestry[cur])} :
              TaskUpdated(t, "Failed") \in events

\* C13 witness: a root without children failed and its event was emitted.
C13_Witness ==
    /\ pc = "returned"
    /\ result = "TaskError"
    /\ cur # 0 /\ cur = root
    /\ TaskUpdated(root, "Failed") \in events

\* C14: when a completion request is sent, every tool call of the last
\* assistant message with tool calls in the chat has been answered by a later
\* Tool message of the chat that carries the call's id.
C14_ToolCallsAnsweredBeforeNextRequest ==
    [][(completions' = completions + 1)
          => \A a \in 1..Len(chat[cur]) :
                (/\ HasToolCalls(chat[cur], a)
                 /\ \A b \in (a + 1)..Len(chat[cur]) : ~HasToolCalls(chat[cur], b))
                   => \A j \in 1..Len(chat[cur][a].tools) :
                         \E k \in (a + 1)..Len(chat[cur]) :
                            /\ chat[cur][k].role = "Tool"
                            /\ chat[cur][k].tcid = j]_vars


\* the roots of the tenant that wait for execution
ToDoRoots == {t \in Tasks : ancestry[t] = <<>> /\ status[t] = "ToDo"}

\* C24: execute_root_task selects the oldest ToDo root of the tenant and
\* sets it to InProgress in the transaction of the selection; when there is
\* no ToDo root it returns NoRootTasks, changes no task and emits no event.
C24_OldestToDoRootIsStarted == [][(pc = "idle" /\ pc' # "idle") => IF ToDoRoots = {} THEN (pc' = "returned" /\ result' = "NoRootTasks" /\ status' = status /\ events' = {}) ELSE (root' \in ToDoRoots /\ (\A t \in ToDoRoots : root' <= t) /\ status' = [status EXCEPT ![root'] = "InProgress"])]_vars

\* the second task was selected: the first root is Done and a younger ToDo
\* root is left waiting
C24_Witness ==
    /\ root = 2
    /\ pc = "execute_task"
    /\ status[2] = "InProgress"
    /\ ancestry[1] = <<>> /\ status[1] = "Done"
    /\ ancestry[3] = <<>> /\ status[3] = "ToDo"

(***************************************************************************)
(* Properties of execute_for_message.                                      *)
(***************************************************************************)
\* the place of handle h in the order of completion (0: still running)
FinishedAt(h) ==
    IF \E k \in 1..Len(finished) : finished[k] = h
    THEN CHOOSE k \in 1..Len(finished) : finished[k] = h
    ELSE 0

\* the handle that executes call c
HandleOf(c) == CHOOSE h \in 1..Len(handles) : handles[h].call = c

\* C15: the Tool messages of one assistant message are committed in the
\* order in which their calls completed, each followed by its MessageCreated
\* event: a call that completed before another one is never committed after
\* it, and a completed call does not wait for a slower earlier call.
C15_CommitsFollowCompletionOrder ==
    /\ \A a \in 1..Len(tool_messages) : \A b \in (a + 1)..Len(tool_messages) :
          FinishedAt(HandleOf(tool_messages[a])) < FinishedAt(HandleOf(tool_messages[b]))
    /\ \A k \in 1..Len(created) : created[k] = tool_messages[k]

\* a later call completed first and was committed second
C15_Witness ==
    /\ Len(tool_messages) = 2
    /\ FinishedAt(HandleOf(tool_messages[2])) < FinishedAt(HandleOf(tool_messages[1]))

\* C16: when execute_for_message has committed the Tool messages of all tool
\* calls and returned Ok, the assistant message's row in its own tenant is
\* Completed.
C16_MessageCompletedInItsTenant ==
    (/\ pc = "tools_returned"
     /\ result = "Ok"
     /\ Len(tool_messages) = Len(request.calls))
        => rows[request.cid] = "Completed"

\* every call was committed and the function returned Ok
C16_Witness ==
    /\ pc = "tools_returned"
    /\ result = "Ok"
    /\ Len(tool_messages) = Len(request.calls)
    /\ tool_messages # <<>>


(***************************************************************************)
(* Properties of the task planner.                                         *)
(***************************************************************************)
\* plan is about to run for a task of one of these statuses
PlanStartsWith(statuses) ==
    /\ pc = "plan"
    /\ stack # <<>>
    /\ stack[Len(stack)].next = 0
    /\ tasks_table[stack[Len(stack)].task].status \in statuses

\* C17: plan on a ToDo or InProgress task fails with PlanningUnavailable
\* before any LLM request is issued, creates or modifies no task and emits no
\* event.
C17_PlanningUnavailableChangesNothing == [][PlanStartsWith({"ToDo", "InProgress"}) => (pc' = "plan_returned" /\ result' = "PlanningUnavailable" /\ requests' = 0 /\ tasks_table' = tasks_table /\ emitted' = <<>>)]_vars

\* plan has returned PlanningUnavailable for a ToDo task
C17_Witness ==
    /\ pc = "plan_returned"
    /\ result = "PlanningUnavailable"
    /\ tasks_table[planned].status = "ToDo"

\* C18: the planner runs only on Draft, WaitingForUser and Failed tasks: for
\* a task of any other status, Done included, plan issues no LLM request and
\* changes nothing.
C18_PlannerRunsOnlyOnPlannableStatuses == [][PlanStartsWith(Status \ {"Draft", "WaitingForUser", "Failed"}) => (requests' = requests /\ tasks_table' = tasks_table /\ emitted' = emitted)]_vars

\* an LLM request was issued for a Done task
C18_Witness ==
    /\ planned # 0
    /\ tasks_table[planned].status = "Done"
    /\ requests > 0

\* the tasks plan has created: the rows after the one it was called with
CreatedTasks == (planned + 1)..Len(tasks_table)

\* the position of the task a created task was planned under
PlannedUnder(p) == row_parent_id(tasks_table[p]) - FirstId + 1

\* C19: whatever the LLM answers, every sub-task S that plan creates under
\* a task T has S.ancestry_level = T.ancestry_level + 1 and
\* T.ancestry_level < planning_depth_limit, so that no created task is
\* deeper than the limit.
C19_SubTasksOneLevelDownBelowLimit ==
    \A id \in CreatedTasks :
        /\ PlannedUnder(id) \in 1..Len(tasks_table)
        /\ tasks_table[id].ancestry_level
              = tasks_table[PlannedUnder(id)].ancestry_level + 1
        /\ tasks_table[PlannedUnder(id)].ancestry_level < planning_depth_limit
        /\ tasks_table[id].ancestry_level <= planning_depth_limit

\* limit 1: a root got several children, each child was planned and
\* answered with several sub-tasks, and plan returned without grandchildren
C19_Witness ==
    /\ pc = "plan_returned"
    /\ result = "Ok"
    /\ planning_depth_limit = 1
    /\ planned = 1
    /\ Len(tasks_table) >= 3
    /\ requests = Len(tasks_table)
    /\ \A k \in 1..Len(emitted) : emitted[k][1] = "TaskCreated"
    /\ Len(response.tool_calls) = 1
    /\ Len(response.tool_calls[1].arguments.agents) >= 2

\* the answer's deciding call: the last one that names a planner function
DecidingCall(resp) ==
    LET l == resp.tool_calls
        P == {i \in 1..Len(l) :
                l[i].name \in {"sfai_plan_task_execution", "sfai_assign_to_agent"}}
    IN  IF P = {} THEN OtherCall ELSE l[CHOOSE i \in P : \A j \in P : j <= i]

\* the answer is sfai_assign_to_agent or a plan of exactly one sub-task, and
\* every planner call of the answer parses
NamesOneAgent(resp) ==
    /\ resp.role = "Assistant"
    /\ \A i \in 1..Len(resp.tool_calls) :
          resp.tool_calls[i].name # "other" => resp.tool_calls[i].arguments.parses
    /\ DecidingCall(resp).name # "other"
    /\ Len(DecidingCall(resp).arguments.agents) = 1

\* C20: when the LLM answers with sfai_assign_to_agent or with a plan of
\* exactly one sub-task, plan sets the task's agent to the named agent,
\* creates no child task, emits exactly one TaskUpdated event and returns
\* without calling itself, at any ancestry level.
C20_OneAgentAssignsAndReturns == [][(requests' = requests + 1 /\ NamesOneAgent(response')) => (/\ tasks_table' = [tasks_table EXCEPT ![stack[Len(stack)].task].agent_id = DecidingCall(response').arguments.agents[1]] /\ emitted' = Append(emitted, <<"TaskUpdated", stack[Len(stack)].task>>) /\ stack' = SubSeq(stack, 1, Len(stack) - 1))]_vars

\* a sub-task at the depth limit was assigned to the agent the answer names
C20_Witness ==
    /\ pc = "plan"
    /\ NamesOneAgent(response)
    /\ stack # <<>>
    /\ emitted # <<>>
    /\ emitted[Len(emitted)][1] = "TaskUpdated"
    /\ emitted[Len(emitted)][2] \in CreatedTasks
    /\ tasks_table[emitted[Len(emitted)][2]].ancestry_level = planning_depth_limit
    /\ tasks_table[emitted[Len(emitted)][2]].agent_id = 2

\* the planner errors the answer calls for (none: the answer is a plan)
NamedPlannerError(resp) ==
    IF resp.role # "Assistant" THEN "NonAssistantMessage"
    ELSE IF DecidingCall(resp).name = "other" THEN "NoToolCallReceived"
    ELSE IF \E i \in 1..Len(resp.tool_calls) :
               resp.tool_calls[i].name # "other" /\ ~resp.tool_calls[i].arguments.parses
    THEN "none"
    ELSE IF DecidingCall(resp).arguments.agents = <<>> THEN "EmptyPlan"
    ELSE "none"

\* C21: plan reports EmptyPlan for an empty task list, NonAssistantMessage
\* for an answer that is not an assistant message and NoToolCallReceived for
\* an assistant answer without a planning tool call, and in each case creates
\* and modifies no task.
C21_NamedPlannerErrors == [][(requests' = requests + 1 /\ response'.role # "none" /\ NamedPlannerError(response') # "none") => (pc' = "plan_returned" /\ result' = NamedPlannerError(response') /\ tasks_table' = tasks_table)]_vars

\* plan has returned EmptyPlan for an answer with an empty task list
C21_Witness ==
    /\ pc = "plan_returned"
    /\ result = "EmptyPlan"
    /\ NamedPlannerError(response) = "EmptyPlan"

\* the number of slash-separated segments of an ancestry column
SegmentCount(anc) ==
    IF ~anc.some THEN 0
    ELSE 1 + Cardinality({i \in 1..Len(anc.text) : anc.text[i] = "/"})

\* every row of this table has the level of its ancestry, and a root has no
\* parent
LevelsCountSegments(table) ==
    \A p \in 1..Len(table) :
        /\ table[p].ancestry_level = SegmentCount(table[p].ancestry)
        /\ ~table[p].ancestry.some
              => (table[p].ancestry_level = 0 /\ row_parent_id(table[p]) = 0)

\* C22: after any sequence of task creations every task has ancestry_level
\* equal to the number of slash-separated segments of its ancestry (0 for a
\* root, whose parent_id() is null), and every child created by planning T
\* has the ancestry children_ancestry(T), so that its parent_id() is T's id.
C22_AncestryLevelCountsSegments == [][LevelsCountSegments(tasks_table) /\ LevelsCountSegments(tasks_table') /\ (Len(tasks_table') = Len(tasks_table) + 1 => (/\ tasks_table'[Len(tasks_table')].ancestry.some /\ tasks_table'[Len(tasks_table')].ancestry.text = (IF tasks_table[stack[Len(stack)].task].ancestry.some THEN tasks_table[stack[Len(stack)].task].ancestry.text \o <<"/">> ELSE <<>>) \o to_string(TaskId(stack[Len(stack)].task)) /\ row_parent_id(tasks_table'[Len(tasks_table')]) = TaskId(stack[Len(stack)].task)))]_vars

\* a task was created at level 2 under a task with an id of two digits
C22_Witness ==
    \E p \in CreatedTasks :
        /\ tasks_table[p].ancestry_level = 2
        /\ row_parent_id(tasks_table[p]) >= 10


(***************************************************************************)
(* Properties of the recovery at startup.                                  *)
(***************************************************************************)
\* C23: after startup recovery no message is Writing and no task is
\* InProgress: exactly the Writing messages have become Failed and the
\* InProgress tasks have become ToDo, and every other row is unchanged.
C23_RecoveryClearsWritingAndInProgress == [][(pc = "prepare" /\ pc' = "prepare_returned" /\ result' = "Ok") => ((\A t \in Tasks : (status'[t] # "InProgress" /\ status'[t] = (IF status[t] = "InProgress" THEN "ToDo" ELSE status[t]))) /\ (\A u \in Tasks : (Len(chat'[u]) = Len(chat[u]) /\ \A i \in 1..Len(chat[u]) : (chat'[u][i].status # "Writing" /\ chat'[u][i] = (IF chat[u][i].status = "Writing" THEN [chat[u][i] EXCEPT !.status = "Failed"] ELSE chat[u][i])))))]_vars

\* recovery has run on a state with a Writing message, an InProgress task and
\* rows in other statuses
C23_Witness ==
    /\ pc = "prepare_returned"
    /\ result = "Ok"
    /\ \E t \in Tasks : status[t] = "ToDo"
    /\ \E t \in Tasks : status[t] = "Done"
    /\ \E i \in 1..Len(chat[1]) : chat[1][i].status = "Failed"
    /\ \E i \in 1..Len(chat[1]) : chat[1][i].status = "WaitingForToolCall"


(***************************************************************************)
(* Properties of cleanup_json_string_newlines.                             *)
(***************************************************************************)
\* C25: cleanup_json_string_newlines is idempotent: applied to its own
\* result it returns that result.
C25_CleanupIsIdempotent ==
    pc = "cleaned_twice" => cleaned_twice = cleaned

\* the first application changed the text: it escaped a newline inside a
\* string and removed one outside, and the second application has run
C25_Witness ==
    /\ pc = "cleaned_twice"
    /\ json_str = <<"\"", "\n", "\"", "\n", "a">>
    /\ cleaned = <<"\"", "\\", "n", "\"", "a">>


\* a text read as JSON reads it: outside a string the quote opens one and a
\* newline is dropped; inside, a backslash escapes the quote or the backslash
\* after it, an unescaped quote closes the string and an unescaped newline
\* is written as backslash-n.  well_formed: no backslash outside a string,
\* no other escape, and every string is closed
RECURSIVE JsonRead(_, _, _, _, _)
JsonRead(s, i, in_string, escaped, out) ==
    IF i > Len(s) THEN [well_formed |-> ~in_string, text |-> out]
    ELSE LET c == s[i] IN
         IF ~in_string
         THEN IF c = "\"" THEN JsonRead(s, i + 1, TRUE, FALSE, Append(out, c))
              ELSE IF c = "\n" THEN JsonRead(s, i + 1, FALSE, FALSE, out)
              ELSE IF c = "\\" THEN [well_formed |-> FALSE, text |-> out]
              ELSE JsonRead(s, i + 1, FALSE, FALSE, Append(out, c))
         ELSE IF escaped
         THEN IF c \in {"\"", "\\"}
              THEN JsonRead(s, i + 1, TRUE, FALSE, Append(out, c))
              ELSE [well_formed |-> FALSE, text |-> out]
         ELSE IF c = "\\" THEN JsonRead(s, i + 1, TRUE, TRUE, Append(out, c))
         ELSE IF c = "\"" THEN JsonRead(s, i + 1, FALSE, FALSE, Append(out, c))
         ELSE IF c = "\n" THEN JsonRead(s, i + 1, TRUE, FALSE, out \o <<"\\", "n">>)
         ELSE JsonRead(s, i + 1, TRUE, FALSE, Append(out, c))

\* C26: cleanup_json_string_newlines keeps the content of every quoted
\* string character for character, except that an unescaped newline inside a
\* string becomes backslash-n, and removes the newlines outside strings, also
\* when a string contains escaped quotes or ends with an escaped backslash.
C26_CleanupKeepsStrings ==
    (pc \in {"cleaned", "cleaned_twice"} /\ JsonRead(json_str, 1, FALSE, FALSE, <<>>).well_formed)
        => cleaned = trim(JsonRead(json_str, 1, FALSE, FALSE, <<>>).text)

\* a string with an escaped quote and a newline was cleaned as described
C26_Witness ==
    /\ pc = "cleaned"
    /\ json_str = <<"\"", "\\", "\"", "\n", "\"">>
    /\ cleaned = <<"\"", "\\", "\"", "\\", "n", "\"">>


(***************************************************************************)
(* Properties of the sandbox.                                              *)
(***************************************************************************)
\* C27: every container run_in_container starts has been removed when the
\* call returns, whether it returns the output or an error raised after the
\* container was created (exec creation, exec start, output draining).
C27_ContainerRemovedOnReturn ==
    (/\ pc = "run_returned"
     /\ result \in {"Ok", "CreateExecError", "StartExecError"})
        => container = "removed"

\* the call drained an output that ended in an error of the stream, removed
\* the container and returned what it had collected
C27_Witness ==
    /\ pc = "run_returned"
    /\ result = "Ok"
    /\ output # <<>>
    /\ output[1] = "Err"
    /\ script_out = <<"a">>
    /\ container = "removed"

(***************************************************************************)
(* BrowserBuilder::wait_for_host_port: the polling of the chromedriver     *)
(* container until port 9515/tcp is bound to a host port.                  *)
(***************************************************************************)
\* every variable of the worker, the stream, the tools and the planner at
\* rest: the helper functions below touch none of them
IdleWorker ==
    /\ ancestry = [t \in Tasks |-> <<>>]
    /\ status = [t \in Tasks |-> "Draft"]
    /\ faulty = FALSE
    /\ chat = [t \in Tasks |-> <<>>]
    /\ root = 0
    /\ cur = 0
    /\ ret = NoRet
    /\ picked = NoPick
    /\ completions = 0
    /\ runs = 0
    /\ events = {}
    /\ sent = <<>>
    /\ joined = FALSE
    /\ cut = 0
    /\ net = <<>>
    /\ message = DummyMessage
    /\ row = NoRow
    /\ chunk_remainder = <<>>
    /\ NoToolExecution
    /\ NoPlanning

IdleWorkerUnchanged ==
    UNCHANGED <<ancestry, status, chat, root, cur, ret, picked, completions,
                runs, faulty, events, streamVars, toolVars, planVars>>

\* `for _ in 0..30`
InspectionLimit == 30

HostPorts == {"32768", "32769"}

\* what inspect_container reports of the container's network: the chain of
\* Options down to the bindings of "9515/tcp"; the daemon reports a host
\* port in every binding it lists
NetworkViews ==
    {[kind |-> k, bindings |-> <<>>] :
        k \in {"NoNetworkSettings", "NoPorts", "NotExposed", "NotBound"}}
        \cup {[kind |-> "Bindings", bindings |-> b] :
                b \in UNION {[1..n -> HostPorts] : n \in 0..2}}

\* the and_then chain of lines 131-137: "" is None
bound_host_port_never(info) == ""

bound_host_port(info) ==
    IF info.kind = "Bindings" /\ Len(info.bindings) > 0
    THEN Head(info.bindings)
    ELSE ""

InitHostPort ==
    /\ IdleWorker
    /\ NoCleanup
    /\ NoDocker
    /\ NoCodeBlocks
    /\ NoLate
    /\ pc = "inspect"
    /\ result = "none"
    /\ network \in NetworkViews
    /\ inspections = 0
    /\ host_port = ""

\* lines 128-140: one pass of the loop up to the sleep
InspectContainer ==
    /\ pc = "inspect"
    /\ inspections < InspectionLimit
    /\ inspections' = inspections + 1
    /\ \/ /\ pc' = "host_port_returned"
          /\ result' = "InspectError"
          /\ UNCHANGED host_port
       \/ /\ bound_host_port(network) # ""
          /\ pc' = "host_port_returned"
          /\ result' = "Ok"
          /\ host_port' = bound_host_port(network)
       \/ /\ bound_host_port(network) = ""
          /\ pc' = "sleep"
          /\ UNCHANGED <<result, host_port>>
    /\ UNCHANGED <<network, cleanupVars, dockerVars, codeBlockVars, lateVars>>
    /\ IdleWorkerUnchanged

\* line 144: half a second during which the daemon may bind, or unbind, the port
Sleep ==
    /\ pc = "sleep"
    /\ pc' = "inspect"
    /\ network' \in NetworkViews
    /\ UNCHANGED <<result, inspections, host_port, cleanupVars, dockerVars,
                   codeBlockVars, lateVars>>
    /\ IdleWorkerUnchanged

\* line 147: the loop is exhausted
HostPortTimeout ==
    /\ pc = "inspect"
    /\ inspections >= InspectionLimit
    /\ pc' = "host_port_returned"
    /\ result' = "WebDriverHostPort"
    /\ UNCHANGED <<network, inspections, host_port, cleanupVars, dockerVars,
                   codeBlockVars, lateVars>>
    /\ IdleWorkerUnchanged

NextHostPort ==
    \/ InspectContainer
    \/ Sleep
    \/ HostPortTimeout

\* the awaited calls return and the sleep ends
SpecHostPort == InitHostPort /\ [][NextHostPort]_vars /\ WF_vars(NextHostPort)

(***************************************************************************)
(* Properties of wait_for_host_port                                        *)
(***************************************************************************)
ShowsBinding == network.kind = "Bindings" /\ network.bindings # <<>>

\* C28: waiting for the host port inspects the container at most 30 times;
\* the inspection that first shows a binding of the port returns its host
\* port, an inspection that shows none does not return a port, the
\* port-timeout error is returned only after 30 inspections, and the call
\* always returns.
C28_HostPortWithinThirtyInspections ==
    /\ [](inspections <= 30)
    /\ [][(inspections' = inspections + 1 /\ result' # "InspectError")
            => IF ShowsBinding
               THEN /\ pc' = "host_port_returned"
                    /\ result' = "Ok"
                    /\ host_port' = network.bindings[1]
               ELSE pc' # "host_port_returned" /\ host_port' = ""]_vars
    /\ [][(pc # "host_port_returned" /\ pc' = "host_port_returned"
            /\ result' = "WebDriverHostPort")
            => inspections = 30 /\ inspections' = 30]_vars
    /\ <>(pc = "host_port_returned")

C28_Witness ==
    /\ pc = "host_port_returned"
    /\ result = "Ok"
    /\ inspections = 30
    /\ host_port = "32769"

(***************************************************************************)
(* task_executor.rs: the dialog loop of execute_task over an execution     *)
(* chat as earlier runs, the user and other writers of the messages table  *)
(* can have left it.                                                       *)
(***************************************************************************)
\* a row with role System
SystemMessage ==
    [role |-> "System", tools |-> <<>>, refl |-> FALSE, internal |-> FALSE,
     status |-> "Completed", code |-> FALSE, tcid |-> 0]

DialogMessages ==
    {UserMessage, ToolMessage(1), CodeInterpreterMessage, SystemMessage,
     AssistantMessage(<<>>, TRUE, "Completed", FALSE),
     AssistantMessage(<<>>, FALSE, "Completed", FALSE),
     AssistantMessage(<<>>, FALSE, "Completed", TRUE)}
        \cup {AssistantMessage(T, FALSE, "WaitingForToolCall", FALSE) : T \in ToolLists}

DialogChats == UNION {[1..n -> DialogMessages] : n \in 0..MaxMessages}

\* execute_task has emitted TaskUpdated and enters the loop for task 1
InitDialog ==
    /\ ancestry = [t \in Tasks |-> <<>>]
    /\ status = [t \in Tasks |-> IF t = 1 THEN "InProgress" ELSE "Draft"]
    /\ faulty = FALSE
    /\ \E c \in DialogChats : chat = [t \in Tasks |-> IF t = 1 THEN c ELSE <<>>]
    /\ pc = "dialog"
    /\ root = 1
    /\ cur = 1
    /\ ret = NoRet
    /\ result = "none"
    /\ picked = NoPick
    /\ completions = 0
    /\ runs = 1
    /\ events = {TaskUpdated(1, "InProgress")}
    /\ sent = <<>>
    /\ joined = FALSE
    /\ cut = 0
    /\ net = <<>>
    /\ message = NoRow
    /\ row = NoRow
    /\ chunk_remainder = <<>>
    /\ NoToolExecution
    /\ NoPlanning
    /\ NoAux

\* the System arm handled like the User arm
UnexpectedSystemMessage_sent_to_agent ==
    /\ pc = "dialog"
    /\ ~NoMessage(chat[cur])
    /\ LastMessage(chat[cur]).role = "System"
    /\ \E o \in create_completion(FALSE) :
         /\ chat' = [chat EXCEPT ![cur] = Append(@, o.msg)]
         /\ IF o.err
            THEN pc' = "finish" /\ ret' = [kind |-> "err", status |-> "none"]
            ELSE pc' = "dialog" /\ ret' = NoRet
    /\ UNCHANGED <<ancestry, status, root, cur, result, picked, completions,
                   runs, faulty, events, streamVars, toolVars, planVars, auxVars>>

\* Role::System: "unexpected system message in the execution chat"
UnexpectedSystemMessage ==
    /\ pc = "dialog"
    /\ ~NoMessage(chat[cur])
    /\ LastMessage(chat[cur]).role = "System"
    /\ pc' = "finish"
    /\ ret' = [kind |-> "err", status |-> "none"]
    /\ UNCHANGED <<ancestry, status, chat, root, cur, result, picked, completions,
                   runs, faulty, events, streamVars, toolVars, planVars, auxVars>>

NextDialog ==
    \/ SendToAgent
    \/ SelfReflect
    \/ InterpretCodeBlocks
    \/ CallTools
    \/ UnexpectedSystemMessage

SpecDialog == InitDialog /\ [][NextDialog]_vars

(***************************************************************************)
(* Properties of the dialog loop                                           *)
(***************************************************************************)
\* what one iteration did, read off the chat before and after it
SentToAgent ==
    /\ Len(chat'[cur]) = Len(chat[cur]) + 1
    /\ SubSeq(chat'[cur], 1, Len(chat[cur])) = chat[cur]
    /\ LastMessage(chat'[cur]).role = "Assistant"
    /\ ~LastMessage(chat'[cur]).refl

SelfReflected ==
    /\ Len(chat'[cur]) = Len(chat[cur]) + 1
    /\ SubSeq(chat'[cur], 1, Len(chat[cur])) = chat[cur]
    /\ LastMessage(chat'[cur]).role = "Assistant"
    /\ LastMessage(chat'[cur]).refl

RanCodeInterpreter ==
    chat'[cur] = Append(chat[cur], CodeInterpreterMessage)

DispatchedToolCalls ==
    /\ Len(chat'[cur]) >= Len(chat[cur])
    /\ chat'[cur][Len(chat[cur])].status \in {"Completed", "Failed"}
    /\ \A i \in (Len(chat[cur]) + 1)..Len(chat'[cur]) :
         chat'[cur][i].role \in {"Tool", "CodeInterpreter"}

EndedWithError ==
    /\ pc' = "finish"
    /\ ret' = [kind |-> "err", status |-> "none"]
    /\ UNCHANGED chat

\* C29: every iteration of the dialog loop acts by the last message of the
\* execution chat: none, User, Tool or CodeInterpreter: the agent is asked;
\* Assistant with tool calls: they are dispatched; Assistant self-reflection
\* without tool calls: the agent is asked again; other Assistant without tool
\* calls: the code interpreter when it has annotated code blocks, else a
\* self-reflection turn; System: the loop ends with an error.
C29_ActionByLastMessage ==
    [][(pc = "dialog" /\ cur # 0) =>
        IF NoMessage(chat[cur]) THEN SentToAgent
        ELSE LET m == LastMessage(chat[cur])
             IN  CASE m.role \in {"User", "Tool", "CodeInterpreter"} -> SentToAgent
                   [] m.role = "System" -> EndedWithError
                   [] m.role = "Assistant" /\ Len(m.tools) > 0 -> DispatchedToolCalls
                   [] m.role = "Assistant" /\ Len(m.tools) = 0 /\ m.refl -> SentToAgent
                   [] m.role = "Assistant" /\ Len(m.tools) = 0 /\ ~m.refl /\ m.code ->
                        RanCodeInterpreter
                   [] OTHER -> SelfReflected]_vars

C29_Witness ==
    /\ pc = "finish"
    /\ ret = [kind |-> "ok", status |-> "Done"]
    /\ Len(chat[1]) = 4
    /\ chat[1][1].role = "Assistant" /\ chat[1][1].code
    /\ chat[1][2] = CodeInterpreterMessage
    /\ chat[1][3].role = "Assistant" /\ chat[1][3].tools = <<"sfai_done">>
    /\ chat[1][3].status = "Completed"
    /\ chat[1][4].role = "Tool"

(***************************************************************************)
(* task_executor.rs: parse_code_blocks over the children of the markdown   *)
(* AST.  A node is [type, children, value]; texts are sequences of         *)
(* characters.                                                             *)
(***************************************************************************)
Text(value) == [type |-> "Text", children |-> <<>>, value |-> value]
InlineCode(value) == [type |-> "InlineCode", children |-> <<>>, value |-> value]
Emphasis == [type |-> "Emphasis", children |-> <<>>, value |-> <<>>]
Paragraph(children) == [type |-> "Paragraph", children |-> children, value |-> <<>>]
BlockQuote(children) == [type |-> "BlockQuote", children |-> children, value |-> <<>>]
Code(value) == [type |-> "Code", children |-> <<>>, value |-> value]

execute_text == <<"e", "x", "e", "c", "u", "t", "e">>
save_text == <<"s", "a", "v", "e", ":">>

\* char::to_lowercase on the letters the texts below use
to_lowercase(s) ==
    [i \in 1..Len(s) |-> CASE s[i] = "E" -> "e" [] s[i] = "S" -> "s" [] OTHER -> s[i]]

\* the texts of a blockquote's first inline node
QuoteTexts ==
    {execute_text, <<"E">> \o Tail(execute_text), save_text \o <<" ">>,
     <<"S">> \o Tail(save_text) \o <<" ">>, <<"r", "u", "n">>}

FirstLines ==
    {<<Text(t)>> : t \in {execute_text, <<"E">> \o Tail(execute_text), <<"r", "u", "n">>}}
        \cup {<<Emphasis>>}
        \cup {<<Text(t), InlineCode(<<"f">>)>> :
                t \in {save_text \o <<" ">>, <<"S">> \o Tail(save_text) \o <<" ">>,
                       <<"r", "u", "n", " ">>}}
        \cup {<<Text(save_text \o <<" ">>), Emphasis>>,
              <<Text(execute_text), Emphasis, Text(<<"!">>)>>}

\* the top-level nodes of an agent's answer
MarkdownNodes ==
    {BlockQuote(<<Paragraph(l)>>) : l \in FirstLines}
        \cup {BlockQuote(<<Paragraph(<<Text(execute_text)>>),
                           Paragraph(<<Text(execute_text)>>)>>),
              BlockQuote(<<Code(<<"1">>)>>),
              Paragraph(<<Text(<<"r", "u", "n">>)>>),
              Code(<<"1">>), Code(<<"2">>)}

Documents == UNION {[1..n -> MarkdownNodes] : n \in 0..MaxNodes}

\* CodeBlock::default()
DefaultCodeBlock == [code |-> <<>>, filename |-> <<>>, action |-> "DoNothing"]

\* the BlockQuote arm: what it leaves in code_block
annotate(blockquote, code_block) ==
    IF Len(blockquote.children) # 1 THEN code_block
    ELSE IF blockquote.children[1].type # "Paragraph" THEN code_block
    ELSE LET paragraph == blockquote.children[1]
         IN  CASE Len(paragraph.children) = 1 ->
                    IF paragraph.children[1].type = "Text"
                    THEN IF trim(to_lowercase(paragraph.children[1].value)) # execute_text
                         THEN code_block
                         ELSE [code_block EXCEPT !.action = "Execute"]
                    ELSE code_block
               [] Len(paragraph.children) = 2 ->
                    IF paragraph.children[1].type = "Text"
                    THEN IF trim(to_lowercase(paragraph.children[1].value)) # save_text
                         THEN code_block
                         ELSE IF paragraph.children[2].type = "InlineCode"
                         THEN [code_block EXCEPT !.filename = paragraph.children[2].value,
                                                 !.action = "Save"]
                         ELSE code_block
                    ELSE code_block
               [] OTHER -> code_block

\* the loop over the children, from child i on
RECURSIVE ParseLoop(_, _, _, _)
ParseLoop(children, i, code_block, blocks) ==
    IF i > Len(children) THEN blocks
    ELSE CASE children[i].type = "BlockQuote" ->
                ParseLoop(children, i + 1, annotate(children[i], code_block), blocks)
           [] children[i].type = "Code" /\ code_block.action # "DoNothing" ->
                ParseLoop(children, i + 1, DefaultCodeBlock,
                          Append(blocks, [code_block EXCEPT !.code = children[i].value]))
           [] OTHER -> ParseLoop(children, i + 1, code_block, blocks)

parse_code_blocks(children) == ParseLoop(children, 1, DefaultCodeBlock, <<>>)

InitCodeBlocks ==
    /\ IdleWorker
    /\ NoCleanup
    /\ NoDocker
    /\ NoHostPort
    /\ NoLate
    /\ pc = "parse"
    /\ result = "none"
    /\ nodes \in Documents
    /\ code_blocks = <<>>

ParseCodeBlocks ==
    /\ pc = "parse"
    /\ code_blocks' = parse_code_blocks(nodes)
    /\ pc' = "parsed"
    /\ result' = "Ok"
    /\ UNCHANGED <<nodes, cleanupVars, dockerVars, hostPortVars, lateVars>>
    /\ IdleWorkerUnchanged

NextCodeBlocks == ParseCodeBlocks

SpecCodeBlocks == InitCodeBlocks /\ [][NextCodeBlocks]_vars

(***************************************************************************)
(* Properties of parse_code_blocks                                         *)
(***************************************************************************)
\* the action a node announces for the code block after it
Annotation(n) ==
    IF \E t \in QuoteTexts :
         trim(to_lowercase(t)) = execute_text /\ n = BlockQuote(<<Paragraph(<<Text(t)>>)>>)
    THEN "Execute"
    ELSE IF \E t \in QuoteTexts :
              /\ trim(to_lowercase(t)) = save_text
              /\ n = BlockQuote(<<Paragraph(<<Text(t), InlineCode(<<"f">>)>>)>>)
    THEN "Save"
    ELSE "DoNothing"

\* the code blocks directly preceded by an annotation, in order
RECURSIVE DirectlyAnnotated(_, _)
DirectlyAnnotated(children, i) ==
    IF i > Len(children) THEN <<>>
    ELSE IF /\ children[i].type = "Code"
            /\ i > 1
            /\ Annotation(children[i - 1]) # "DoNothing"
    THEN <<[code |-> children[i].value, action |-> Annotation(children[i - 1])]>>
            \o DirectlyAnnotated(children, i + 1)
    ELSE DirectlyAnnotated(children, i + 1)

\* C30: parse_code_blocks returns exactly the code blocks whose preceding
\* node is an execute or save annotation blockquote, with that action; a code
\* block without annotation, or with other nodes between it and an earlier
\* annotation, is not returned.
C30_OnlyDirectlyAnnotatedBlocks ==
    pc = "parsed" =>
        [i \in 1..Len(code_blocks) |->
            [code |-> code_blocks[i].code, action |-> code_blocks[i].action]]
            = DirectlyAnnotated(nodes, 1)

C30_Witness ==
    /\ pc = "parsed"
    /\ Len(nodes) = 3
    /\ nodes[1] = Code(<<"1">>)
    /\ Annotation(nodes[2]) = "Save"
    /\ nodes[3] = Code(<<"2">>)
    /\ Len(code_blocks) = 1
    /\ code_blocks[1].code = <<"2">>
    /\ code_blocks[1].action = "Save"

(***************************************************************************)
(* The tools of a completion request: send_to_agent and self_reflect call  *)
(* create_completion, which builds the request's tools from its params and *)
(* the abilities of the chat's agent.                                      *)
(***************************************************************************)
AbilityNames == {"search", "browse", "write", "plot"}

AgentAbilities == UNION {[1..n -> AbilityNames] : n \in 0..MaxAbilities}

Some(list) == [some |-> TRUE, list |-> list]

\* the function names of internal_task_abilities()
internal_task_abilities == <<"sfai_done", "sfai_fail", "sfai_wait_for_user">>

\* chats.rs:81-85: `match params.abilities`
chain_abilities(given, own) ==
    IF given.some THEN given.list \o own ELSE own

\* chats.rs:347-369: None for no abilities, else one tool per ability
construct_tools(list) ==
    IF list = <<>> THEN [some |-> FALSE, list |-> <<>>] ELSE Some(list)

\* the rest state of everything but the offer
OfferIdle ==
    /\ IdleWorker
    /\ NoCleanup
    /\ NoDocker
    /\ NoHostPort
    /\ NoCodeBlocks
    /\ NoChats
    /\ NoWorkers

OfferIdleUnchanged ==
    /\ IdleWorkerUnchanged
    /\ UNCHANGED <<cleanupVars, dockerVars, hostPortVars, codeBlockVars, chatVars,
                    workerVars>>

InitOffer ==
    /\ OfferIdle
    /\ pc = "dialog"
    /\ result = "none"
    /\ agent_abilities \in AgentAbilities
    /\ params = NoParams
    /\ abilities = <<>>
    /\ offered_tools = [some |-> FALSE, list |-> <<>>]

\* task_executor.rs:633-646: send_to_agent's call of create_completion
SendToAgentCall ==
    /\ pc = "dialog"
    /\ params' = [abilities |-> [some |-> FALSE, list |-> <<>>],
                  is_self_reflection |-> FALSE]
    /\ pc' = "create_completion"
    /\ UNCHANGED <<result, agent_abilities, abilities, offered_tools>>
    /\ OfferIdleUnchanged

\* task_executor.rs:689-704: self_reflect's call of create_completion
SelfReflectCall ==
    /\ pc = "dialog"
    /\ params' = [abilities |-> Some(internal_task_abilities),
                  is_self_reflection |-> TRUE]
    /\ pc' = "create_completion"
    /\ UNCHANGED <<result, agent_abilities, abilities, offered_tools>>
    /\ OfferIdleUnchanged

\* chats.rs:79-85
ListAbilities ==
    /\ pc = "create_completion"
    /\ abilities' = chain_abilities(params.abilities, agent_abilities)
    /\ pc' = "construct_tools"
    /\ UNCHANGED <<result, agent_abilities, params, offered_tools>>
    /\ OfferIdleUnchanged

\* chats.rs:110-134: the tools of the request sent to the LLM
ConstructTools ==
    /\ pc = "construct_tools"
    /\ offered_tools' = construct_tools(abilities)
    /\ pc' = "requested"
    /\ UNCHANGED <<result, agent_abilities, params, abilities>>
    /\ OfferIdleUnchanged

NextOffer ==
    \/ SendToAgentCall
    \/ SelfReflectCall
    \/ ListAbilities
    \/ ConstructTools

SpecOffer == InitOffer /\ [][NextOffer]_vars

(***************************************************************************)
(* Properties of the offered tools                                         *)
(***************************************************************************)
\* C31: the completion request of a self-reflection turn offers exactly the
\* tools sfai_done, sfai_fail and sfai_wait_for_user and none of the agent's
\* own abilities.
C31_SelfReflectionOffersControlToolsOnly ==
    (pc = "requested" /\ params.is_self_reflection) =>
        /\ offered_tools.some
        /\ offered_tools.list = <<"sfai_done", "sfai_fail", "sfai_wait_for_user">>

C31_Witness ==
    /\ pc = "requested"
    /\ params.is_self_reflection
    /\ agent_abilities = <<>>
    /\ offered_tools = Some(<<"sfai_done", "sfai_fail", "sfai_wait_for_user">>)

(***************************************************************************)
(* Properties of a failing child                                           *)
(***************************************************************************)
AncestorsOf(t) == {ancestry[t][i] : i \in 1..Len(ancestry[t])}

ChildFails == pc = "finish" /\ cur # root /\ ret.kind = "err"

\* C32: when the dialog loop of a picked child returns an error, the step
\* that handles it leaves the status of every task other than the child and
\* its ancestors as it was, and the run returns without picking or executing
\* another task.
C32_ChildFailureLeavesOtherTasks ==
    [][ChildFails =>
        /\ \A t \in Tasks \ ({cur} \cup AncestorsOf(cur)) : status'[t] = status[t]
        /\ pc' = "returned"
        /\ result' = "TaskError"
        /\ UNCHANGED <<cur, picked, chat, completions>>]_vars

C32_Witness ==
    /\ pc = "returned"
    /\ result = "TaskError"
    /\ root = 1
    /\ cur = 2
    /\ ancestry[3] = <<1>>
    /\ status = <<"Failed", "Failed", "Draft">>

(***************************************************************************)
(* Properties of the order of the child picker                             *)
(***************************************************************************)
\* the tasks of the subtree below and including s
Subtree(s) == {u \in Tasks : u = s \/ s \in AncestorsOf(u)}

\* the siblings of s that were created before s
EarlierSiblings(s) ==
    {u \in Tasks : u # s /\ ancestry[u] = ancestry[s] /\ created_at(u) < created_at(s)}

\* C33: the task the child picker hands to the dialog loop is InProgress, none
\* of its descendants is a candidate, and no subtree of an earlier-created
\* sibling of the task or of one of its ancestors below the root holds a
\* candidate: the walk is depth-first, leaf-first, siblings in creation order.
C33_PickerIsLeafFirstInCreationOrder ==
    (pc = "execute_task" /\ cur # root) =>
        /\ status[cur] = "InProgress"
        /\ picked.task = cur
        /\ \A d \in Subtree(cur) \ {cur} : status[d] \notin Candidates
        /\ \A s \in ({cur} \cup AncestorsOf(cur)) \ {root} :
             \A e \in EarlierSiblings(s) :
               \A u \in Subtree(e) : status[u] \notin Candidates

C33_Witness ==
    /\ pc = "execute_task"
    /\ root = 1
    /\ cur = 3
    /\ ancestry[2] = <<1>>
    /\ ancestry[3] = <<1>>
    /\ status = <<"InProgress", "Done", "InProgress">>
    /\ picked = [task |-> 3, status |-> "WaitingForUser"]

(***************************************************************************)
(* task_executor.rs: get_task_execution_chat over several executions of    *)
(* one task.  The database answers every call.                             *)
(***************************************************************************)
Kind == {"Direct", "Control", "Execution"}

Agents == {1, 2}

ChatTables == UNION {[1..n -> Kind] : n \in 0..MaxChats}

\* the rest state of everything but the chats
ChatIdle ==
    /\ ancestry = [t \in Tasks |-> <<>>]
    /\ status = [t \in Tasks |-> "Draft"]
    /\ faulty = FALSE
    /\ chat = [t \in Tasks |-> <<>>]
    /\ root = 0
    /\ cur = 0
    /\ ret = NoRet
    /\ picked = NoPick
    /\ completions = 0
    /\ events = {}
    /\ sent = <<>>
    /\ joined = FALSE
    /\ cut = 0
    /\ net = <<>>
    /\ message = DummyMessage
    /\ row = NoRow
    /\ chunk_remainder = <<>>
    /\ NoToolExecution
    /\ NoPlanning
    /\ NoCleanup
    /\ NoDocker
    /\ NoHostPort
    /\ NoCodeBlocks
    /\ NoOffer
    /\ NoWorkers

ChatIdleUnchanged ==
    UNCHANGED <<ancestry, status, chat, root, cur, ret, picked, completions,
                faulty, events, streamVars, toolVars, planVars, cleanupVars,
                dockerVars, hostPortVars, codeBlockVars, offerVars, workerVars>>

\* the task row before the first execution: execution_chat_id is NULL or
\* names a chat; an Execution chat it names was linked when it was created
InitChats ==
    /\ ChatIdle
    /\ pc = "idle"
    /\ result = "none"
    /\ runs = 0
    /\ chats \in ChatTables
    /\ execution_chat_id \in 0..Len(chats)
    /\ task_agent \in Agents
    /\ agents_chats =
         IF execution_chat_id # 0 /\ chats[execution_chat_id] = "Execution"
         THEN {<<task_agent, execution_chat_id>>}
         ELSE {}
    /\ task_chat_id = 0
    /\ new_chats = {}

\* the Task row the executor is handed by get_root_task_for_execution or
\* start_progress, and the call of execute_task
ExecuteTaskCall ==
    /\ pc = "idle"
    /\ runs < MaxRuns
    /\ runs' = runs + 1
    /\ task_chat_id' = execution_chat_id
    /\ pc' = "get_task_execution_chat"
    /\ result' = "none"
    /\ UNCHANGED <<chats, agents_chats, execution_chat_id, task_agent, new_chats>>
    /\ ChatIdleUnchanged

\* `if let Some(chat_id) = task.execution_chat_id` taken as never matching
has_execution_chat_never(id) == FALSE

\* line 106: `if let Some(chat_id) = task.execution_chat_id`
has_execution_chat(id) == id # 0

\* lines 106-111: the chat exists already
GetChat ==
    /\ pc = "get_task_execution_chat"
    /\ has_execution_chat(task_chat_id)
    /\ IF chats[task_chat_id] = "Execution"
       THEN pc' = "dialog" /\ result' = "none"
       ELSE pc' = "idle" /\ result' = "NotAnExecutionChat"
    /\ UNCHANGED <<runs, chats, agents_chats, execution_chat_id, task_agent,
                   task_chat_id, new_chats>>
    /\ ChatIdleUnchanged

\* line 113: repo::chats::create
CreateChat ==
    /\ pc = "get_task_execution_chat"
    /\ ~has_execution_chat(task_chat_id)
    /\ chats' = Append(chats, "Execution")
    /\ new_chats' = new_chats \cup {Len(chats) + 1}
    /\ pc' = "update_execution_chat_id"
    /\ UNCHANGED <<runs, result, agents_chats, execution_chat_id, task_agent,
                   task_chat_id>>
    /\ ChatIdleUnchanged

\* line 114: repo::tasks::update_execution_chat_id
UpdateExecutionChatId ==
    /\ pc = "update_execution_chat_id"
    /\ execution_chat_id' = Len(chats)
    /\ pc' = "agents_chats_create"
    /\ UNCHANGED <<runs, result, chats, agents_chats, task_agent, task_chat_id,
                   new_chats>>
    /\ ChatIdleUnchanged

\* line 115 and execute_task line 255: link the agent, keep the id in memory
CreateAgentsChats ==
    /\ pc = "agents_chats_create"
    /\ agents_chats' = agents_chats \cup {<<task_agent, Len(chats)>>}
    /\ task_chat_id' = Len(chats)
    /\ pc' = "dialog"
    /\ UNCHANGED <<runs, result, chats, execution_chat_id, task_agent, new_chats>>
    /\ ChatIdleUnchanged

\* the dialog loop returns, with a status or an error
ExecuteTaskReturns ==
    /\ pc = "dialog"
    /\ pc' = "idle"
    /\ result' \in {"Ok", "TaskError"}
    /\ UNCHANGED <<runs, chats, agents_chats, execution_chat_id, task_agent,
                   task_chat_id, new_chats>>
    /\ ChatIdleUnchanged

NextChats ==
    \/ ExecuteTaskCall
    \/ GetChat
    \/ CreateChat
    \/ UpdateExecutionChatId
    \/ CreateAgentsChats
    \/ ExecuteTaskReturns

SpecChats == InitChats /\ [][NextChats]_vars

C35_DoneIsFinal ==
    [][\A t \in Tasks : status[t] = "Done" => status'[t] = "Done"]_vars

C35_Witness ==
    /\ pc = "returned"
    /\ result = "TaskError"
    /\ root = 1
    /\ cur = 3
    /\ ancestry[2] = <<1>>
    /\ ancestry[3] = <<1>>
    /\ status = <<"Failed", "Done", "Failed">>

(***************************************************************************)
(* task_executor.rs: get_root_task_for_execution called by two workers for *)
(* the same tenant.  Each call runs in a transaction of the pool's default *)
(* isolation level, READ COMMITTED: a SELECT sees the committed rows, an   *)
(* UPDATE waits for the transaction that holds the row and then writes.    *)
(***************************************************************************)
Workers == {1, 2}

InitWorkers ==
    /\ ancestry = [t \in Tasks |-> <<>>]
    /\ status \in [Tasks -> Status]
    /\ faulty = FALSE
    /\ chat = [t \in Tasks |-> <<>>]
    /\ pc = "workers"
    /\ root = 0
    /\ cur = 0
    /\ ret = NoRet
    /\ result = "none"
    /\ picked = NoPick
    /\ completions = 0
    /\ runs = 0
    /\ events = {}
    /\ sent = <<>>
    /\ joined = FALSE
    /\ cut = 0
    /\ net = <<>>
    /\ message = DummyMessage
    /\ row = NoRow
    /\ chunk_remainder = <<>>
    /\ NoToolExecution
    /\ NoPlanning
    /\ NoCleanup
    /\ NoDocker
    /\ NoHostPort
    /\ NoCodeBlocks
    /\ NoOffer
    /\ NoChats
    /\ w_pc = [w \in Workers |-> "begin"]
    /\ w_task = [w \in Workers |-> 0]
    /\ row_lock = [t \in Tasks |-> 0]

WorkersUnchanged ==
    UNCHANGED <<ancestry, chat, pc, root, cur, ret, result, picked, completions,
                runs, faulty, events, streamVars, toolVars, planVars, cleanupVars,
                dockerVars, hostPortVars, codeBlockVars, offerVars, chatVars>>

\* lines 123-139: begin and SELECT the oldest ToDo root among the committed
\* rows; Ok(None) after a commit when there is none
SelectRoot(w) ==
    /\ w_pc[w] = "begin"
    /\ LET r == get_root_for_execution
       IN  IF r = 0
           THEN w_pc' = [w_pc EXCEPT ![w] = "returned"] /\ UNCHANGED w_task
           ELSE /\ w_pc' = [w_pc EXCEPT ![w] = "selected"]
                /\ w_task' = [w_task EXCEPT ![w] = r]
    /\ UNCHANGED <<status, row_lock>>
    /\ WorkersUnchanged

\* line 141: start_progress, an UPDATE by id; it waits while another open
\* transaction has updated the row
StartProgress(w) ==
    /\ w_pc[w] = "selected"
    /\ row_lock[w_task[w]] = 0
    /\ row_lock' = [row_lock EXCEPT ![w_task[w]] = w]
    /\ w_pc' = [w_pc EXCEPT ![w] = "updated"]
    /\ UNCHANGED <<status, w_task>>
    /\ WorkersUnchanged

\* lines 142-146: commit and Ok(Some(task))
CommitRoot(w) ==
    /\ w_pc[w] = "updated"
    /\ status' = [status EXCEPT ![w_task[w]] = "InProgress"]
    /\ row_lock' = [row_lock EXCEPT ![w_task[w]] = 0]
    /\ w_pc' = [w_pc EXCEPT ![w] = "returned"]
    /\ UNCHANGED w_task
    /\ WorkersUnchanged

NextWorkers ==
    \E w \in Workers :
        \/ SelectRoot(w)
        \/ StartProgress(w)
        \/ CommitRoot(w)

SpecWorkers == InitWorkers /\ [][NextWorkers]_vars

(***************************************************************************)
(* Properties of concurrent workers                                        *)
(***************************************************************************)
\* C36: no root task is handed to more than one of the workers that call
\* execute_root_task concurrently.
C36_NoRootPickedTwice ==
    \A v, w \in Workers :
        (v # w /\ w_pc[v] = "returned" /\ w_pc[w] = "returned" /\ w_task[v] # 0)
            => w_task[v] # w_task[w]

C36_Witness ==
    /\ w_pc = [w \in Workers |-> "returned"]
    /\ w_task = <<1, 2>>
    /\ status[1] = "InProgress"
    /\ status[2] = "InProgress"

(***************************************************************************)
(* Properties of the progress of the dialog loop                           *)
(***************************************************************************)
\* C37: every iteration of the dialog loop returns or leaves the execution
\* chat longer than it found it, so the next iteration sees a new last
\* message.
C37_IterationReturnsOrAppends ==
    [][(pc = "dialog" /\ cur # 0) =>
        \/ pc' = "finish"
        \/ Len(chat'[cur]) > Len(chat[cur])]_vars

C37_Witness ==
    /\ pc = "dialog"
    /\ Len(chat[1]) = 2
    /\ chat[1][1].role = "Assistant"
    /\ chat[1][1].tools = <<"sfai_code_interpreter">>
    /\ chat[1][1].status = "Completed"
    /\ chat[1][2] = CodeInterpreterMessage

(***************************************************************************)
(* Properties of the length of the tree walk                               *)
(***************************************************************************)
\* the descendants the running execute_children_task_tree has picked: each
\* pick is announced by the TaskUpdated event of the picked child
PickedInRun == {t \in Tasks \ {root} : TaskUpdated(t, "InProgress") \in events}

\* C38: in one run of the tree walk no descendant is picked twice: a picked
\* task is InProgress while its dialog loop runs and is not a candidate once
\* the walk goes on, and the picker never returns a task it returned before
\* in the run; so there are at most as many picks as descendants.
C38_EachDescendantPickedOnce ==
    /\ [](\A t \in PickedInRun :
            IF t = cur /\ pc \in {"execute_task", "dialog", "finish"}
            THEN status[t] = "InProgress"
            ELSE pc = "children" => status[t] \notin Candidates)
    /\ [](root # 0 => Cardinality(PickedInRun) <= get_all_children_count(root))
    /\ [][(pc = "children" /\ pc' = "execute_task") => cur' \notin PickedInRun]_vars

C38_Witness ==
    /\ pc = "returned"
    /\ result = "Ok"
    /\ root = 1
    /\ ancestry[2] = <<1>>
    /\ ancestry[3] = <<1>>
    /\ PickedInRun = {2, 3}
    /\ status[2] = "Done"
    /\ status[3] = "Done"

(***************************************************************************)
(* Properties of the interpretation of the parsed code blocks              *)
(***************************************************************************)
\* the branch interpret_code takes for a code block: it looks at the
\* filename only, never at the action
interpret_code(code_block) ==
    IF code_block.filename = <<>> THEN "run" ELSE "write"

\* C39: a code block parsed under an execute annotation has no filename, so
\* interpret_code runs it and does not write it to a file.
C39_ExecuteBlocksAreRun ==
    pc = "parsed" =>
        \A i \in 1..Len(code_blocks) :
            code_blocks[i].action = "Execute" =>
                /\ code_blocks[i].filename = <<>>
                /\ interpret_code(code_blocks[i]) = "run"

C39_Witness ==
    /\ pc = "parsed"
    /\ Len(nodes) = 2
    /\ Annotation(nodes[1]) = "Execute"
    /\ nodes[2] = Code(<<"1">>)
    /\ Len(code_blocks) = 1
    /\ code_blocks[1].action = "Execute"
    /\ interpret_code(code_blocks[1]) = "run"

(***************************************************************************)
(* browser.rs: BrowserBuilder::connect and the end of a Browser.  connect  *)
(* launches the chromedriver container, waits for its host port, opens the *)
(* WebDriver session and sizes the window; the container is the one of the *)
(* Docker section, the wait is the loop of wait_for_host_port above.       *)
(***************************************************************************)
\* docker.rs kill_container, answered by a working daemon: the container was
\* created with auto_remove
kill_container(c) == IF c = "running" THEN "removed" ELSE c

InitBrowser ==
    /\ IdleWorker
    /\ NoCleanup
    /\ NoDocker
    /\ NoCodeBlocks
    /\ NoLate
    /\ pc = "connect"
    /\ result = "none"
    /\ network \in NetworkViews
    /\ inspections = 0
    /\ host_port = ""

\* browser.rs line 101 and docker.rs lines 201-236: create and start
LaunchChromedriverContainer ==
    /\ pc = "connect"
    /\ \/ /\ pc' = "connect_returned"
          /\ result' = "Bollard"
          /\ UNCHANGED container
       \/ /\ pc' = "connect_returned"
          /\ result' = "Bollard"
          /\ container' = "created"
       \/ /\ pc' = "inspect"
          /\ container' = "running"
          /\ UNCHANGED result
    /\ UNCHANGED <<has_binds, output, script_out, cleanupVars, helperVars>>
    /\ IdleWorkerUnchanged

\* line 103: the `?` on the answer of wait_for_host_port
WaitForHostPortReturns ==
    /\ pc = "host_port_returned"
    /\ IF result = "Ok"
       THEN pc' = "client_connect" /\ result' = "none"
       ELSE pc' = "connect_returned" /\ UNCHANGED result
    /\ UNCHANGED <<cleanupVars, dockerVars, helperVars>>
    /\ IdleWorkerUnchanged

\* lines 105-109: ClientBuilder::connect
ClientConnect ==
    /\ pc = "client_connect"
    /\ \/ pc' = "set_window_size" /\ UNCHANGED result
       \/ pc' = "connect_returned" /\ result' = "WebDriverConnection"
    /\ UNCHANGED <<cleanupVars, dockerVars, helperVars>>
    /\ IdleWorkerUnchanged

\* lines 111-121: set_window_size, then Ok(Browser)
SetWindowSize ==
    /\ pc = "set_window_size"
    /\ pc' = "connect_returned"
    /\ result' \in {"Ok", "WebDriverCmd"}
    /\ UNCHANGED <<cleanupVars, dockerVars, helperVars>>
    /\ IdleWorkerUnchanged

\* lines 328-348: the Browser connect returned goes out of scope
DropBrowser ==
    /\ pc = "connect_returned"
    /\ result = "Ok"
    /\ pc' = "dropped"
    /\ container' = kill_container(container)
    /\ UNCHANGED <<result, has_binds, output, script_out, cleanupVars, helperVars>>
    /\ IdleWorkerUnchanged

NextBrowser ==
    \/ LaunchChromedriverContainer
    \/ InspectContainer
    \/ Sleep
    \/ HostPortTimeout
    \/ WaitForHostPortReturns
    \/ ClientConnect
    \/ SetWindowSize
    \/ DropBrowser

SpecBrowser == InitBrowser /\ [][NextBrowser]_vars

(***************************************************************************)
(* Properties of the chromedriver container                                *)
(***************************************************************************)
\* C40: no chromedriver container that connect launched keeps running after
\* the Browser was dropped, or after connect returned an error.
C40_LaunchedContainerIsKilled ==
    /\ pc = "dropped" => container # "running"
    /\ (pc = "connect_returned" /\ result # "Ok") => container # "running"

C40_Witness ==
    /\ pc = "dropped"
    /\ result = "Ok"
    /\ host_port # ""
    /\ container = "removed"

=============================================================================
